---- MODULE Spec2Model ----
(***************************************************************************)
(* Model of moveit_core/planning_scene/src/planning_scene.cpp.             *)
(*                                                                         *)
(* A planning scene is a record; the scene hierarchy is the function       *)
(* `scenes` from the scene names "S" (a root scene) and "F" (a scene made  *)
(* by S.diff()) to their records.  Every method of PlanningScene is an     *)
(* operator that takes the hierarchy and the name of the scene it is       *)
(* called on and gives the hierarchy after the call (and the value the     *)
(* method returns).  The actions apply these operators.                    *)
(***************************************************************************)
EXTENDS Integers, Sequences, FiniteSets, TLC

VARIABLES scenes, last, calls, cq, gs, vq

vars == <<scenes, last, calls, cq, gs, vq>>

\* ------------------------------------------------------------------------
\* Bounds of the model
\* ------------------------------------------------------------------------

\* calls made on the scenes in one behaviour of Spec
MaxCalls == 4

\* calls made on the scenes in one behaviour of SpecDiff
MaxDiffCalls == 2

\* calls made on the scenes in one behaviour of SpecFork
MaxForkCalls == 3

\* the messages of a behaviour of SpecFork are among its first calls, up to
\* this one
MaxForkMessages == 2

\* way points of the trajectories isPathValid is called with
MaxWayPoints == 3

\* shapes an object or attached body may hold (APPEND is not taken beyond it)
MaxShapes == 3

\* calls that change the scene between the frame lookups of a caller
MaxFrameCalls == 2

\* ------------------------------------------------------------------------
\* Names
\* ------------------------------------------------------------------------

OCTOMAP_NS == "<octomap>"

\* links of the robot model, and the frame of the model
Links == {"L1", "L2"}

ModelFrame == "world"

SceneNames == {"S", "F"}

\* ------------------------------------------------------------------------
\* Maps (std::map) and optional values (std::optional, unique_ptr)
\* ------------------------------------------------------------------------

EmptyMap == [x \in {} |-> TRUE]

MapPut(m, k, v) == [x \in (DOMAIN m) \cup {k} |-> IF x = k THEN v ELSE m[x]]

MapDel(m, k) == [x \in (DOMAIN m) \ {k} |-> m[x]]

\* std::map::insert(first, last): keys already present keep their value
MapInsertAll(m, other) ==
  [x \in (DOMAIN m) \cup (DOMAIN other) |-> IF x \in DOMAIN m THEN m[x] ELSE other[x]]

None == <<>>

Some(v) == <<v>>

Has(o) == o # <<>>

Val(o) == o[1]

\* ------------------------------------------------------------------------
\* Poses: rigid transforms form a non-commutative group; the model takes the
\* group of the permutations of 1..3 (Eigen::Isometry3d product and inverse)
\* ------------------------------------------------------------------------

Poses == {p \in [1..3 -> 1..3] : \A i, j \in 1..3 : i # j => p[i] # p[j]}

Identity == <<1, 2, 3>>

PoseA == <<2, 3, 1>>

PoseB == <<2, 1, 3>>

Mul(a, b) == [i \in 1..3 |-> a[b[i]]]

Inverse(a) == CHOOSE b \in Poses : Mul(a, b) = Identity

\* geometry_msgs::Pose: the transform it denotes and the norm of its quaternion
EmptyPoseMsg == [q |-> Identity, norm |-> 1]

PoseMsg(q) == [q |-> q, norm |-> 1]

\* moveit::core::isEmpty(pose): zero position and the quaternion (0,0,0,1)
isEmpty(pose_msg) == pose_msg = EmptyPoseMsg

\* utilities::poseMsgToEigen: the quaternion is normalized
poseMsgToEigen(msg) == msg.q

\* ------------------------------------------------------------------------
\* collision_detection::World and WorldDiff.  A scene record sc holds the
\* objects of its World in sc.world (id -> Object) and the change log of its
\* WorldDiff in sc.world_diff (absent, or id -> set of Action bits).
\* ------------------------------------------------------------------------

Object(pose, shapes, shape_poses, subframes) ==
  [pose |-> pose, shapes |-> shapes, shape_poses |-> shape_poses, subframe_poses |-> subframes]

\* WorldDiff::notify: DESTROY replaces the entry, any other action is or-ed in
notify(sc, id, action) ==
  IF ~Has(sc.world_diff) THEN sc
  ELSE LET ch == Val(sc.world_diff)
           old == IF id \in DOMAIN ch THEN ch[id] ELSE {}
           new == IF action = {"DESTROY"} THEN {"DESTROY"} ELSE old \cup action
       IN [sc EXCEPT !.world_diff = Some(MapPut(ch, id, new))]

hasObject(sc, id) == id \in DOMAIN sc.world

\* World::addToObject(id, pose, shapes, shape_poses): the pose is used only when
\* the object is created
addToObject(sc, id, pose, shapes, shape_poses) ==
  IF Len(shapes) # Len(shape_poses) \/ Len(shapes) = 0 THEN sc
  ELSE IF hasObject(sc, id)
       THEN LET o == sc.world[id]
                o2 == [o EXCEPT !.shapes = o.shapes \o shapes,
                                !.shape_poses = o.shape_poses \o shape_poses]
            IN notify([sc EXCEPT !.world = MapPut(sc.world, id, o2)], id, {"ADD_SHAPE"})
       ELSE notify([sc EXCEPT !.world = MapPut(sc.world, id, Object(pose, shapes, shape_poses, EmptyMap))],
                   id, {"ADD_SHAPE", "CREATE"})

\* World::addToObject(id, shape, shape_pose)
addShapeToObject(sc, id, shape, shape_pose) ==
  addToObject(sc, id, Identity, <<shape>>, <<shape_pose>>)

\* World::removeObject; the caller reads the result with hasObject beforehand
removeObject(sc, id) ==
  IF hasObject(sc, id)
  THEN [notify(sc, id, {"DESTROY"}) EXCEPT !.world = MapDel(sc.world, id)]
  ELSE sc

\* World::setObjectPose: creates the object when it does not exist
setObjectPose(sc, id, pose) ==
  IF hasObject(sc, id)
  THEN notify([sc EXCEPT !.world = MapPut(sc.world, id, [sc.world[id] EXCEPT !.pose = pose])], id,
              IF sc.world[id].shapes = <<>> THEN {} ELSE {"MOVE_SHAPE"})
  ELSE notify([sc EXCEPT !.world = MapPut(sc.world, id, Object(pose, <<>>, <<>>, EmptyMap))], id, {"CREATE"})

\* World::moveShapesInObject succeeds when the object exists and the counts agree
canMoveShapesInObject(sc, id, shape_poses) ==
  hasObject(sc, id) /\ Len(shape_poses) = Len(sc.world[id].shapes)

moveShapesInObject(sc, id, shape_poses) ==
  IF canMoveShapesInObject(sc, id, shape_poses)
  THEN notify([sc EXCEPT !.world = MapPut(sc.world, id, [sc.world[id] EXCEPT !.shape_poses = shape_poses])],
              id, {"MOVE_SHAPE"})
  ELSE sc

\* World::setSubframesOfObject
setSubframesOfObject(sc, id, subframes) ==
  IF hasObject(sc, id)
  THEN [sc EXCEPT !.world = MapPut(sc.world, id, [sc.world[id] EXCEPT !.subframe_poses = subframes])]
  ELSE sc

\* World::knowsTransform / getTransform: an object id names the object's pose
worldKnowsTransform(sc, frame_id) == hasObject(sc, frame_id)

worldGetTransform(sc, frame_id) == sc.world[frame_id].pose

\* ------------------------------------------------------------------------
\* moveit::core::RobotState: the joint configuration (which fixes the global
\* transform of every link) and the attached bodies
\* ------------------------------------------------------------------------

\* RobotState::getGlobalLinkTransform
getGlobalLinkTransform(rs, link) ==
  IF rs.joints = "q0"
  THEN (IF link = "L1" THEN PoseA ELSE PoseB)
  ELSE (IF link = "L1" THEN PoseB ELSE Identity)

AttachedBody(link, pose, shapes, shape_poses, touch_links, detach_posture, subframes) ==
  [link |-> link, pose |-> pose, shapes |-> shapes, shape_poses |-> shape_poses,
   touch_links |-> touch_links, detach_posture |-> detach_posture, subframe_poses |-> subframes]

hasAttachedBody(rs, id) == id \in DOMAIN rs.attached

\* RobotState::attachBody
attachBody(rs, id, body) == [rs EXCEPT !.attached = MapPut(rs.attached, id, body)]

\* RobotState::clearAttachedBody
clearAttachedBody(rs, id) == [rs EXCEPT !.attached = MapDel(rs.attached, id)]

\* AttachedBody::getGlobalPose
getGlobalPose(rs, id) == Mul(getGlobalLinkTransform(rs, rs.attached[id].link), rs.attached[id].pose)

\* RobotState::knowsFrameTransform / getFrameTransform: the model frame, the
\* links and the attached bodies
stateKnowsFrameTransform(rs, frame_id) ==
  frame_id = ModelFrame \/ frame_id \in Links \/ hasAttachedBody(rs, frame_id)

stateGetFrameTransform(rs, frame_id) ==
  IF frame_id = ModelFrame THEN Identity
  ELSE IF frame_id \in Links THEN getGlobalLinkTransform(rs, frame_id)
  ELSE getGlobalPose(rs, frame_id)

\* RobotModel::hasLinkModel
hasLinkModel(link) == link \in Links

\* ------------------------------------------------------------------------
\* PlanningScene: members and construction
\* ------------------------------------------------------------------------

\* a collision environment, as far as the scene sets it: link padding and scale
DefaultCollisionEnv == [padding |-> "pad0", scale |-> "scale1"]

\* the scene name that is not in use yet
NoScene ==
  [exists |-> FALSE, parent |-> FALSE, world |-> EmptyMap, world_diff |-> None,
   robot_state |-> None, acm |-> None, scene_transforms |-> None,
   object_colors |-> None, original_object_colors |-> None, object_types |-> None,
   cenv |-> DefaultCollisionEnv, cenv_unpadded |-> DefaultCollisionEnv]

\* PlanningScene(robot_model, world) and initialize()
RootScene(world) ==
  [NoScene EXCEPT !.exists = TRUE,
                  !.world = world,
                  !.scene_transforms = Some([f \in {ModelFrame} |-> Identity]),
                  !.robot_state = Some([joints |-> "q0", attached |-> EmptyMap]),
                  !.acm = Some(Links)]

Upd(scs, n, sc) == [scs EXCEPT ![n] = sc]

\* the parent of the scene made by diff() is the root scene
Parent(n) == "S"

\* PlanningScene::getCurrentState
getCurrentState(scs, n) ==
  IF Has(scs[n].robot_state) THEN Val(scs[n].robot_state)
  ELSE Val(scs[Parent(n)].robot_state)

\* PlanningScene::getAllowedCollisionMatrix
getAllowedCollisionMatrix(scs, n) ==
  IF Has(scs[n].acm) THEN Val(scs[n].acm) ELSE Val(scs[Parent(n)].acm)

\* PlanningScene::getTransforms
getTransforms(scs, n) ==
  IF Has(scs[n].scene_transforms) THEN Val(scs[n].scene_transforms)
  ELSE Val(scs[Parent(n)].scene_transforms)

\* a getCurrentStateNonConst that gives the scene the default state of the
\* robot model instead of the state of the parent
getCurrentStateNonConstDefault(scs, n) ==
  IF Has(scs[n].robot_state) THEN scs
  ELSE Upd(scs, n, [scs[n] EXCEPT !.robot_state = Some([joints |-> "q0", attached |-> EmptyMap])])

\* PlanningScene::getCurrentStateNonConst, and the same first lines of
\* setCurrentState and processAttachedCollisionObjectMsg: the state of the
\* parent is copied when the scene has none
getCurrentStateNonConst(scs, n) ==
  IF Has(scs[n].robot_state) THEN scs
  ELSE Upd(scs, n, [scs[n] EXCEPT !.robot_state = Some(getCurrentState(scs, Parent(n)))])

\* PlanningScene::getAllowedCollisionMatrixNonConst
getAllowedCollisionMatrixNonConst(scs, n) ==
  IF Has(scs[n].acm) THEN scs
  ELSE Upd(scs, n, [scs[n] EXCEPT !.acm = Some(getAllowedCollisionMatrix(scs, Parent(n)))])

\* AllowedCollisionMatrix::removeEntry on the scene's own matrix
acmRemoveEntry(scs, n, id) ==
  LET t == getAllowedCollisionMatrixNonConst(scs, n)
  IN Upd(t, n, [t[n] EXCEPT !.acm = Some(Val(t[n].acm) \ {id})])

\* ------------------------------------------------------------------------
\* Object colors and types
\* ------------------------------------------------------------------------

\* PlanningScene::hasObjectColor
hasObjectColor(scs, n, id) ==
  \/ (Has(scs[n].object_colors) /\ id \in DOMAIN Val(scs[n].object_colors))
  \/ (scs[n].parent /\ Has(scs[Parent(n)].object_colors)
      /\ id \in DOMAIN Val(scs[Parent(n)].object_colors))

\* PlanningScene::getObjectColor (the static EMPTY color when there is none)
getObjectColor(scs, n, id) ==
  IF Has(scs[n].object_colors) /\ id \in DOMAIN Val(scs[n].object_colors)
  THEN Val(scs[n].object_colors)[id]
  ELSE IF scs[n].parent /\ Has(scs[Parent(n)].object_colors)
          /\ id \in DOMAIN Val(scs[Parent(n)].object_colors)
       THEN Val(scs[Parent(n)].object_colors)[id]
       ELSE "EMPTY"

\* PlanningScene::getOriginalObjectColor
getOriginalObjectColor(sc, id) ==
  IF Has(sc.original_object_colors) /\ id \in DOMAIN Val(sc.original_object_colors)
  THEN Some(Val(sc.original_object_colors)[id])
  ELSE None

\* PlanningScene::setObjectColor
setObjectColor(sc, id, color) ==
  IF id = "" THEN sc
  ELSE LET colors == MapPut(IF Has(sc.object_colors) THEN Val(sc.object_colors) ELSE EmptyMap, id, color)
           orig == IF Has(sc.original_object_colors) THEN Val(sc.original_object_colors) ELSE EmptyMap
       IN [sc EXCEPT !.object_colors = Some(colors),
                     !.original_object_colors =
                        Some(IF Has(getOriginalObjectColor(sc, id)) THEN orig ELSE MapPut(orig, id, color))]

\* a removeObjectColor that forgets the color first set as well
removeObjectColorForget(sc, id) ==
  IF Has(sc.object_colors)
  THEN [sc EXCEPT !.object_colors = Some(MapDel(Val(@), id)),
                  !.original_object_colors = IF Has(@) THEN Some(MapDel(Val(@), id)) ELSE @]
  ELSE sc

\* PlanningScene::removeObjectColor
removeObjectColor(sc, id) ==
  IF Has(sc.object_colors) THEN [sc EXCEPT !.object_colors = Some(MapDel(Val(@), id))] ELSE sc

\* PlanningScene::hasObjectType
hasObjectType(scs, n, id) ==
  \/ (Has(scs[n].object_types) /\ id \in DOMAIN Val(scs[n].object_types))
  \/ (scs[n].parent /\ Has(scs[Parent(n)].object_types)
      /\ id \in DOMAIN Val(scs[Parent(n)].object_types))

\* PlanningScene::getObjectType
getObjectType(scs, n, id) ==
  IF Has(scs[n].object_types) /\ id \in DOMAIN Val(scs[n].object_types)
  THEN Val(scs[n].object_types)[id]
  ELSE IF scs[n].parent /\ Has(scs[Parent(n)].object_types)
          /\ id \in DOMAIN Val(scs[Parent(n)].object_types)
       THEN Val(scs[Parent(n)].object_types)[id]
       ELSE "EMPTY"

\* PlanningScene::setObjectType
setObjectType(sc, id, type) ==
  [sc EXCEPT !.object_types = Some(MapPut(IF Has(@) THEN Val(@) ELSE EmptyMap, id, type))]

\* PlanningScene::removeObjectType
removeObjectType(sc, id) ==
  IF Has(sc.object_types) THEN [sc EXCEPT !.object_types = Some(MapDel(Val(@), id))] ELSE sc

\* ------------------------------------------------------------------------
\* Frame transforms
\* ------------------------------------------------------------------------

\* PlanningScene::knowsFrameTransform(frame_id), on the current state
knowsFrameTransform(scs, n, frame_id) ==
  \/ stateKnowsFrameTransform(getCurrentState(scs, n), frame_id)
  \/ worldKnowsTransform(scs[n], frame_id)
  \/ frame_id \in DOMAIN getTransforms(scs, n)

\* PlanningScene::getFrameTransform(frame_id), on the current state; an unknown
\* frame gives the identity of Transforms::getTransform
getFrameTransform(scs, n, frame_id) ==
  IF stateKnowsFrameTransform(getCurrentState(scs, n), frame_id)
  THEN stateGetFrameTransform(getCurrentState(scs, n), frame_id)
  ELSE IF worldKnowsTransform(scs[n], frame_id) THEN worldGetTransform(scs[n], frame_id)
  ELSE IF frame_id \in DOMAIN getTransforms(scs, n) THEN getTransforms(scs, n)[frame_id]
  ELSE Identity

\* the frame names of the callers, without a leading slash
FrameNames == {ModelFrame, "L1", "L2", "box", "fixed1", "nope"}

\* frame_id[0] == '/', for the frame names in use
leadingSlash(frame_id) == frame_id \in {"/" \o f : f \in FrameNames}

\* frame_id.substr(1) of a name with a leading slash
substr1(frame_id) == CHOOSE f \in FrameNames : "/" \o f = frame_id

\* PlanningScene::getFrameTransform(state, frame_id): a name with a leading
\* slash goes to the overload that reads the current state of the scene
getFrameTransformOf(scs, n, state, frame_id) ==
  IF leadingSlash(frame_id) THEN getFrameTransform(scs, n, substr1(frame_id))
  ELSE IF stateKnowsFrameTransform(state, frame_id) THEN stateGetFrameTransform(state, frame_id)
  ELSE IF worldKnowsTransform(scs[n], frame_id) THEN worldGetTransform(scs[n], frame_id)
  ELSE IF frame_id \in DOMAIN getTransforms(scs, n) THEN getTransforms(scs, n)[frame_id]
  ELSE Identity

\* PlanningScene::knowsFrameTransform(state, frame_id)
knowsFrameTransformOf(scs, n, state, frame_id) ==
  IF leadingSlash(frame_id) THEN knowsFrameTransform(scs, n, substr1(frame_id))
  ELSE \/ stateKnowsFrameTransform(state, frame_id)
       \/ worldKnowsTransform(scs[n], frame_id)
       \/ frame_id \in DOMAIN getTransforms(scs, n)

\* ------------------------------------------------------------------------
\* Collision object messages
\* ------------------------------------------------------------------------

CollisionObjectMsg(id, operation, frame_id, pose, primitives, primitive_poses, meshes, mesh_poses, planes, plane_poses, subframes, type) ==
  [id |-> id, operation |-> operation, frame_id |-> frame_id, pose |-> pose,
   primitives |-> primitives, primitive_poses |-> primitive_poses,
   meshes |-> meshes, mesh_poses |-> mesh_poses,
   planes |-> planes, plane_poses |-> plane_poses,
   subframes |-> subframes, type |-> type]

\* shapes::constructShapeFromMsg gives no shape for a message it cannot convert
constructShapeFromMsg(shape_msg) == IF shape_msg = "bad" THEN None ELSE Some(shape_msg)

\* the lambda `append` of shapesAndPosesFromCollisionObjectMessage
appendShape(acc, s, pose_msg) ==
  IF ~Has(s) THEN acc
  ELSE IF ~acc.switch
       THEN [acc EXCEPT !.shape_poses = Append(@, poseMsgToEigen(pose_msg)),
                        !.shapes = Append(@, Val(s))]
       ELSE [acc EXCEPT !.shape_poses = Append(@, acc.object_pose),
                        !.object_pose = poseMsgToEigen(pose_msg),
                        !.shapes = Append(@, Val(s))]

RECURSIVE treatShapeVectors(_, _, _, _)
\* the lambda `treat_shape_vectors`: a shape without a pose gets the empty pose
treatShapeVectors(acc, shape_vector, shape_poses_vector, i) ==
  IF i > Len(shape_vector) THEN acc
  ELSE treatShapeVectors(
         appendShape(acc, constructShapeFromMsg(shape_vector[i]),
                     IF i > Len(shape_poses_vector) THEN EmptyPoseMsg ELSE shape_poses_vector[i]),
         shape_vector, shape_poses_vector, i + 1)

NumShapes(object) == Len(object.primitives) + Len(object.meshes) + Len(object.planes)

NumShapePoses(object) ==
  Len(object.primitive_poses) + Len(object.mesh_poses) + Len(object.plane_poses)

\* PlanningScene::shapesAndPosesFromCollisionObjectMessage:
\* [ok, object_pose, shapes, shape_poses]
shapesAndPosesFromCollisionObjectMessage(object) ==
  IF \/ Len(object.primitives) < Len(object.primitive_poses)
     \/ Len(object.meshes) < Len(object.mesh_poses)
     \/ Len(object.planes) < Len(object.plane_poses)
  THEN [ok |-> FALSE, switch |-> FALSE, object_pose |-> Identity, shapes |-> <<>>, shape_poses |-> <<>>]
  ELSE LET switch == NumShapes(object) = 1 /\ isEmpty(object.pose)
           a0 == [ok |-> TRUE, switch |-> switch,
                  object_pose |-> IF switch THEN Identity ELSE poseMsgToEigen(object.pose),
                  shapes |-> <<>>, shape_poses |-> <<>>]
           a1 == treatShapeVectors(a0, object.primitives, object.primitive_poses, 1)
           a2 == treatShapeVectors(a1, object.meshes, object.mesh_poses, 1)
       IN treatShapeVectors(a2, object.planes, object.plane_poses, 1)

\* the subframes of a message as a map (subframe_names / subframe_poses)
subframesOfMsg(object) == [f \in DOMAIN object.subframes |-> poseMsgToEigen(object.subframes[f])]

\* a processCollisionObjectAdd in which ADD does not remove the object the
\* World holds
processCollisionObjectAddKeepOld(scs, n, object) ==
  IF ~knowsFrameTransform(scs, n, object.frame_id) THEN [scs |-> scs, ret |-> FALSE]
  ELSE IF NumShapes(object) = 0 THEN [scs |-> scs, ret |-> FALSE]
  ELSE LET world_to_object_header_transform == getFrameTransform(scs, n, object.frame_id)
           sp == shapesAndPosesFromCollisionObjectMessage(object)
           object_frame_transform == Mul(world_to_object_header_transform, sp.object_pose)
           c2 == addToObject(scs[n], object.id, object_frame_transform, sp.shapes, sp.shape_poses)
           c3 == IF object.type # "" THEN setObjectType(c2, object.id, object.type) ELSE c2
           c4 == setSubframesOfObject(c3, object.id, subframesOfMsg(object))
       IN IF ~sp.ok THEN [scs |-> scs, ret |-> FALSE]
          ELSE [scs |-> Upd(scs, n, c4), ret |-> TRUE]

\* PlanningScene::processCollisionObjectAdd: [scs, ret]
processCollisionObjectAdd(scs, n, object) ==
  IF ~knowsFrameTransform(scs, n, object.frame_id) THEN [scs |-> scs, ret |-> FALSE]
  ELSE IF NumShapes(object) = 0 THEN [scs |-> scs, ret |-> FALSE]
  ELSE LET s1 == IF object.operation = "ADD" /\ hasObject(scs[n], object.id)
                 THEN Upd(scs, n, removeObject(scs[n], object.id)) ELSE scs
           world_to_object_header_transform == getFrameTransform(s1, n, object.frame_id)
           sp == shapesAndPosesFromCollisionObjectMessage(object)
           object_frame_transform == Mul(world_to_object_header_transform, sp.object_pose)
           c2 == addToObject(s1[n], object.id, object_frame_transform, sp.shapes, sp.shape_poses)
           c3 == IF object.type # "" THEN setObjectType(c2, object.id, object.type) ELSE c2
           c4 == setSubframesOfObject(c3, object.id, subframesOfMsg(object))
       IN IF ~sp.ok THEN [scs |-> s1, ret |-> FALSE]
          ELSE [scs |-> Upd(s1, n, c4), ret |-> TRUE]

RECURSIVE removeAllCollisionObjects(_, _, _)
\* PlanningScene::removeAllCollisionObjects; ids are the ids still to visit
removeAllCollisionObjects(scs, n, ids) ==
  IF ids = {} THEN scs
  ELSE LET id == CHOOSE x \in ids : TRUE
           s1 == IF id # OCTOMAP_NS
                 THEN acmRemoveEntry(
                        Upd(scs, n, removeObjectType(removeObjectColor(removeObject(scs[n], id), id), id)),
                        n, id)
                 ELSE scs
       IN removeAllCollisionObjects(s1, n, ids \ {id})

\* a processCollisionObjectRemove that takes the object out of the World
\* without a word to the change log
processCollisionObjectRemoveSilent(scs, n, object) ==
  IF object.id = "" THEN [scs |-> removeAllCollisionObjects(scs, n, DOMAIN scs[n].world), ret |-> TRUE]
  ELSE IF ~hasObject(scs[n], object.id) THEN [scs |-> scs, ret |-> FALSE]
  ELSE [scs |-> acmRemoveEntry(
                  Upd(scs, n, removeObjectType(removeObjectColor(
                                [scs[n] EXCEPT !.world = MapDel(scs[n].world, object.id)],
                                object.id), object.id)),
                  n, object.id),
        ret |-> TRUE]

\* PlanningScene::processCollisionObjectRemove
processCollisionObjectRemove(scs, n, object) ==
  IF object.id = "" THEN [scs |-> removeAllCollisionObjects(scs, n, DOMAIN scs[n].world), ret |-> TRUE]
  ELSE IF ~hasObject(scs[n], object.id) THEN [scs |-> scs, ret |-> FALSE]
  ELSE [scs |-> acmRemoveEntry(
                  Upd(scs, n, removeObjectType(removeObjectColor(removeObject(scs[n], object.id),
                                                                 object.id), object.id)),
                  n, object.id),
        ret |-> TRUE]

\* the shape poses of a MOVE message, in the order primitive, mesh, plane
movePoses(object) ==
  [i \in 1..NumShapePoses(object) |->
     poseMsgToEigen((object.primitive_poses \o object.mesh_poses \o object.plane_poses)[i])]

\* a processCollisionObjectMove that writes the shape poses it was given
\* before it compares their number with the number of shapes
processCollisionObjectMovePartial(scs, n, object) ==
  IF ~hasObject(scs[n], object.id) THEN [scs |-> scs, ret |-> FALSE]
  ELSE LET world_to_object_header_transform == getFrameTransform(scs, n, object.frame_id)
           object_frame_transform ==
             Mul(world_to_object_header_transform, poseMsgToEigen(object.pose))
           c1 == setObjectPose(scs[n], object.id, object_frame_transform)
           old == c1.world[object.id].shape_poses
           new == [i \in 1..Len(old) |->
                     IF i <= NumShapePoses(object) THEN movePoses(object)[i] ELSE old[i]]
       IN IF NumShapePoses(object) = 0 THEN [scs |-> Upd(scs, n, c1), ret |-> TRUE]
          ELSE [scs |-> Upd(scs, n, [c1 EXCEPT !.world[object.id].shape_poses = new]),
                ret |-> NumShapePoses(object) = Len(old)]

\* PlanningScene::processCollisionObjectMove
processCollisionObjectMove(scs, n, object) ==
  IF ~hasObject(scs[n], object.id) THEN [scs |-> scs, ret |-> FALSE]
  ELSE LET world_to_object_header_transform == getFrameTransform(scs, n, object.frame_id)
           object_frame_transform ==
             Mul(world_to_object_header_transform, poseMsgToEigen(object.pose))
           c1 == setObjectPose(scs[n], object.id, object_frame_transform)
       IN IF NumShapePoses(object) = 0 THEN [scs |-> Upd(scs, n, c1), ret |-> TRUE]
          ELSE IF NumShapePoses(object) # Len(c1.world[object.id].shape_poses)
               THEN [scs |-> Upd(scs, n, c1), ret |-> FALSE]
          ELSE IF ~canMoveShapesInObject(c1, object.id, movePoses(object))
               THEN [scs |-> Upd(scs, n, c1), ret |-> FALSE]
          ELSE [scs |-> Upd(scs, n, moveShapesInObject(c1, object.id, movePoses(object))), ret |-> TRUE]

\* PlanningScene::processCollisionObjectMsg
processCollisionObjectMsg(scs, n, object) ==
  IF object.id = OCTOMAP_NS THEN [scs |-> scs, ret |-> FALSE]
  ELSE IF object.operation \in {"ADD", "APPEND"} THEN processCollisionObjectAdd(scs, n, object)
  ELSE IF object.operation = "REMOVE" THEN processCollisionObjectRemove(scs, n, object)
  ELSE IF object.operation = "MOVE" THEN processCollisionObjectMove(scs, n, object)
  ELSE [scs |-> scs, ret |-> FALSE]

\* ------------------------------------------------------------------------
\* Attached collision object messages
\* ------------------------------------------------------------------------

AttachedCollisionObjectMsg(object, link_name, touch_links, detach_posture) ==
  [object |-> object, link_name |-> link_name, touch_links |-> touch_links,
   detach_posture |-> detach_posture]

withRobotState(sc, rs) == [sc EXCEPT !.robot_state = Some(rs)]

\* an attachGeometry that never looks at the World: the geometry is always
\* that of the message
attachGeometryFromMessage(scs, n, object) ==
  LET o == object.object
      rs == getCurrentState(scs, n)
      link_inv == Inverse(getGlobalLinkTransform(rs, object.link_name))
      sp == shapesAndPosesFromCollisionObjectMessage(o)
      world_to_header_frame == getFrameTransform(scs, n, o.frame_id)
      link_to_header_frame == Mul(link_inv, world_to_header_frame)
  IN [ok |-> sp.ok, pose |-> Mul(link_to_header_frame, sp.object_pose),
      shapes |-> sp.shapes, shape_poses |-> sp.shape_poses,
      subframe_poses |-> subframesOfMsg(o)]

\* STEP 1 of attaching: [ok, pose, shapes, shape_poses, subframe_poses], the
\* geometry of the body and its pose in the frame of the link
attachGeometry(scs, n, object) ==
  LET o == object.object
      rs == getCurrentState(scs, n)
      link_inv == Inverse(getGlobalLinkTransform(rs, object.link_name))
  IN IF o.operation = "ADD" /\ NumShapes(o) = 0
     THEN IF hasObject(scs[n], o.id)
          THEN [ok |-> TRUE, pose |-> Mul(link_inv, scs[n].world[o.id].pose),
                shapes |-> scs[n].world[o.id].shapes,
                shape_poses |-> scs[n].world[o.id].shape_poses,
                subframe_poses |-> scs[n].world[o.id].subframe_poses]
          ELSE [ok |-> FALSE, pose |-> Identity, shapes |-> <<>>, shape_poses |-> <<>>,
                subframe_poses |-> EmptyMap]
     ELSE LET sp == shapesAndPosesFromCollisionObjectMessage(o)
              world_to_header_frame == getFrameTransform(scs, n, o.frame_id)
              link_to_header_frame == Mul(link_inv, world_to_header_frame)
          IN [ok |-> sp.ok, pose |-> Mul(link_to_header_frame, sp.object_pose),
              shapes |-> sp.shapes, shape_poses |-> sp.shape_poses,
              subframe_poses |-> subframesOfMsg(o)]

\* an attachedBodyFor that always builds the body from the message alone
attachedBodyForReplace(rs, object, g) ==
  AttachedBody(object.link_name, g.pose, g.shapes, g.shape_poses, object.touch_links,
               object.detach_posture, g.subframe_poses)

\* STEP 3 of attaching: the body put on the robot state
attachedBodyFor(rs, object, g) ==
  LET o == object.object
  IN IF o.operation = "ADD" \/ ~hasAttachedBody(rs, o.id)
     THEN AttachedBody(object.link_name, g.pose, g.shapes, g.shape_poses, object.touch_links,
                       object.detach_posture, g.subframe_poses)
     ELSE LET ab == rs.attached[o.id]
          IN AttachedBody(object.link_name,
                          IF isEmpty(o.pose) THEN ab.pose ELSE g.pose,
                          g.shapes \o ab.shapes,
                          g.shape_poses \o ab.shape_poses,
                          ab.touch_links \cup object.touch_links,
                          IF object.detach_posture = "" THEN ab.detach_posture
                          ELSE object.detach_posture,
                          MapInsertAll(g.subframe_poses, ab.subframe_poses))

\* the ADD / APPEND branch of processAttachedCollisionObjectMsg, on a scene
\* that has its own robot state
processAttach(scs, n, object) ==
  LET o == object.object
      g == attachGeometry(scs, n, object)
      c1 == IF o.type # "" THEN setObjectType(scs[n], o.id, o.type) ELSE scs[n]
      c2 == removeObject(c1, o.id)
      rs == Val(c2.robot_state)
      c3 == withRobotState(c2, attachBody(clearAttachedBody(rs, o.id), o.id, attachedBodyFor(rs, object, g)))
  IN IF ~hasLinkModel(object.link_name) THEN [scs |-> scs, ret |-> FALSE]
     ELSE IF ~g.ok THEN [scs |-> scs, ret |-> FALSE]
     ELSE IF g.shapes = <<>> THEN [scs |-> scs, ret |-> FALSE]
     ELSE [scs |-> Upd(scs, n, c3), ret |-> TRUE]

\* STEP 1 of detaching: the ids of the bodies the message selects
detachCandidates(rs, object) ==
  IF object.object.id = ""
  THEN IF object.link_name # "" /\ hasLinkModel(object.link_name)
       THEN {id \in DOMAIN rs.attached : rs.attached[id].link = object.link_name}
       ELSE DOMAIN rs.attached
  ELSE IF hasAttachedBody(rs, object.object.id) THEN {object.object.id} ELSE {}

\* a detaching that puts the body in the World at its pose in the frame of
\* the link instead of its global pose
detachBodyLocalPose(sc, name) ==
  LET rs == Val(sc.robot_state)
      ab == rs.attached[name]
      c1 == setSubframesOfObject(addToObject(sc, name, ab.pose, ab.shapes, ab.shape_poses),
                                 name, ab.subframe_poses)
      original_object_color == getOriginalObjectColor(sc, name)
      c2 == IF Has(original_object_color) THEN setObjectColor(c1, name, Val(original_object_color))
            ELSE c1
      c3 == IF hasObject(sc, name) THEN sc ELSE c2
  IN withRobotState(c3, clearAttachedBody(rs, name))

\* a detaching that adds the body to the World whether or not the World has
\* an object of its name
detachBodyAlways(sc, name) ==
  LET rs == Val(sc.robot_state)
      ab == rs.attached[name]
      c1 == setSubframesOfObject(addToObject(sc, name, getGlobalPose(rs, name), ab.shapes, ab.shape_poses),
                                 name, ab.subframe_poses)
      original_object_color == getOriginalObjectColor(sc, name)
      c2 == IF Has(original_object_color) THEN setObjectColor(c1, name, Val(original_object_color))
            ELSE c1
  IN withRobotState(c2, clearAttachedBody(rs, name))

\* STEP 2+3 of detaching, for one body
detachBody(sc, name) ==
  LET rs == Val(sc.robot_state)
      ab == rs.attached[name]
      c1 == setSubframesOfObject(addToObject(sc, name, getGlobalPose(rs, name), ab.shapes, ab.shape_poses),
                                 name, ab.subframe_poses)
      original_object_color == getOriginalObjectColor(sc, name)
      c2 == IF Has(original_object_color) THEN setObjectColor(c1, name, Val(original_object_color))
            ELSE c1
      c3 == IF hasObject(sc, name) THEN sc ELSE c2
  IN withRobotState(c3, clearAttachedBody(rs, name))

RECURSIVE detachBodies(_, _)
detachBodies(sc, names) ==
  IF names = {} THEN sc
  ELSE LET name == CHOOSE x \in names : TRUE
       IN detachBodies(detachBody(sc, name), names \ {name})

\* a detaching that does not compare the link of the message with the link
\* of the body
processDetachAnyLink(scs, n, object) ==
  LET rs == Val(scs[n].robot_state)
      id == object.object.id
      attached_bodies == detachCandidates(rs, object)
  IN [scs |-> Upd(scs, n, detachBodies(scs[n], attached_bodies)),
      ret |-> (attached_bodies # {} \/ id = "")]

\* the REMOVE branch of processAttachedCollisionObjectMsg
processDetach(scs, n, object) ==
  LET rs == Val(scs[n].robot_state)
      id == object.object.id
      attached_bodies == detachCandidates(rs, object)
  IN IF id # "" /\ hasAttachedBody(rs, id) /\ object.link_name # ""
        /\ rs.attached[id].link # object.link_name
     THEN [scs |-> scs, ret |-> FALSE]
     ELSE [scs |-> Upd(scs, n, detachBodies(scs[n], attached_bodies)),
           ret |-> (attached_bodies # {} \/ id = "")]

\* a processAttachedCollisionObjectMsg that copies the robot state of the
\* parent before it looks at the link and the id of the message
processAttachedCollisionObjectMsgLate(scs, n, object) ==
  LET s1 == getCurrentStateNonConst(scs, n)
  IN IF object.object.operation = "ADD" /\ ~hasLinkModel(object.link_name)
     THEN [scs |-> s1, ret |-> FALSE]
     ELSE IF object.object.id = OCTOMAP_NS THEN [scs |-> s1, ret |-> FALSE]
     ELSE IF object.object.operation \in {"ADD", "APPEND"} THEN processAttach(s1, n, object)
     ELSE IF object.object.operation = "REMOVE" THEN processDetach(s1, n, object)
     ELSE [scs |-> s1, ret |-> FALSE]

\* PlanningScene::processAttachedCollisionObjectMsg
processAttachedCollisionObjectMsg(scs, n, object) ==
  IF object.object.operation = "ADD" /\ ~hasLinkModel(object.link_name)
  THEN [scs |-> scs, ret |-> FALSE]
  ELSE IF object.object.id = OCTOMAP_NS THEN [scs |-> scs, ret |-> FALSE]
  ELSE LET s1 == getCurrentStateNonConst(scs, n)
       IN IF object.object.operation \in {"ADD", "APPEND"} THEN processAttach(s1, n, object)
          ELSE IF object.object.operation = "REMOVE" THEN processDetach(s1, n, object)
          ELSE [scs |-> s1, ret |-> FALSE]

\* ------------------------------------------------------------------------
\* Robot state messages
\* ------------------------------------------------------------------------

RobotStateMsg(joints, is_diff, attached_collision_objects) ==
  [joints |-> joints, is_diff |-> is_diff, attached_collision_objects |-> attached_collision_objects]

\* moveit::core::robotStateMsgToRobotState on a message without attached objects:
\* the joint values named by the message are set; a message that is not a diff
\* clears the attached bodies
robotStateMsgToRobotState(state_msg, rs) ==
  LET r1 == IF state_msg.joints = "" THEN rs ELSE [rs EXCEPT !.joints = state_msg.joints]
  IN IF state_msg.is_diff THEN r1 ELSE [r1 EXCEPT !.attached = EmptyMap]

RECURSIVE processAttachedList(_, _, _, _)
\* the loop over state.attached_collision_objects in setCurrentState: [scs, ret],
\* ret the conjunction of the results of the messages that were processed
processAttachedList(acc, n, state_msg, i) ==
  IF i > Len(state_msg.attached_collision_objects) THEN acc
  ELSE LET aco == state_msg.attached_collision_objects[i]
       IN IF ~state_msg.is_diff /\ aco.object.operation # "ADD"
          THEN processAttachedList(acc, n, state_msg, i + 1)
          ELSE LET r == processAttachedCollisionObjectMsg(acc.scs, n, aco)
               IN processAttachedList([scs |-> r.scs, ret |-> acc.ret /\ r.ret], n, state_msg, i + 1)

\* the body of setCurrentState(const moveit_msgs::msg::RobotState&): [scs, ret],
\* ret the conjunction of what the processAttachedCollisionObjectMsg calls of
\* its loop returned
setCurrentStateResults(scs, n, state_msg) ==
  LET s1 == getCurrentStateNonConst(scs, n)
      s2 == Upd(s1, n, withRobotState(s1[n], robotStateMsgToRobotState(state_msg, Val(s1[n].robot_state))))
  IN processAttachedList([scs |-> s2, ret |-> TRUE], n, state_msg, 1)

\* PlanningScene::setCurrentState(const moveit_msgs::msg::RobotState&): the
\* function is void, what the calls of its loop returned is dropped
setCurrentState(scs, n, state_msg) == setCurrentStateResults(scs, n, state_msg).scs

\* ------------------------------------------------------------------------
\* Occupancy map
\* ------------------------------------------------------------------------

OctomapMsg(id, data, frame_id, origin) ==
  [id |-> id, data |-> data, frame_id |-> frame_id, origin |-> origin]

\* createOctomap and shapes::OcTree: the shape that wraps the tree read from data
octreeShape(data) == IF data = "d1" THEN "octree_d1" ELSE "octree_d2"

\* a processOctomapMsg that removes the previous occupancy map only when the
\* message carries no usable map
processOctomapMsgKeepOld(scs, n, map) ==
  IF map.data = "" \/ map.id # "OcTree" THEN Upd(scs, n, removeObject(scs[n], OCTOMAP_NS))
  ELSE Upd(scs, n, addShapeToObject(scs[n], OCTOMAP_NS, octreeShape(map.data),
                                    IF map.frame_id # "" THEN getFrameTransform(scs, n, map.frame_id)
                                    ELSE Identity))

\* PlanningScene::processOctomapMsg(const octomap_msgs::msg::Octomap&)
processOctomapMsg(scs, n, map) ==
  LET s1 == Upd(scs, n, removeObject(scs[n], OCTOMAP_NS))
  IN IF map.data = "" THEN s1
     ELSE IF map.id # "OcTree" THEN s1
     ELSE Upd(s1, n, addShapeToObject(s1[n], OCTOMAP_NS, octreeShape(map.data),
                                     IF map.frame_id # "" THEN getFrameTransform(s1, n, map.frame_id)
                                     ELSE Identity))

\* PlanningScene::processOctomapMsg(const octomap_msgs::msg::OctomapWithPose&)
processOctomapWithPoseMsg(scs, n, map) ==
  LET s1 == Upd(scs, n, removeObject(scs[n], OCTOMAP_NS))
      t == getFrameTransform(s1, n, map.frame_id)
      p == Mul(t, poseMsgToEigen(map.origin))
  IN IF map.data = "" THEN s1
     ELSE IF map.id # "OcTree" THEN s1
     ELSE Upd(s1, n, addShapeToObject(s1[n], OCTOMAP_NS, octreeShape(map.data), p))

\* shapes::OcTree(octree): the shape that wraps the tree the caller holds; the
\* trees createOctomap makes for a message are none of the caller's
OcTreeShape(octree) == octree

\* a processOctomapPtr that always removes the occupancy map and adds it again
processOctomapPtrRebuild(scs, n, octree, t) ==
  Upd(scs, n, addShapeToObject(removeObject(scs[n], OCTOMAP_NS), OCTOMAP_NS, OcTreeShape(octree), t))

\* PlanningScene::processOctomapPtr(octree, t)
processOctomapPtr(scs, n, octree, t) ==
  LET sc == scs[n]
  IN IF /\ hasObject(sc, OCTOMAP_NS)
        /\ Len(sc.world[OCTOMAP_NS].shapes) = 1
        /\ sc.world[OCTOMAP_NS].shapes[1] = OcTreeShape(octree)
     THEN IF sc.world[OCTOMAP_NS].shape_poses[1] = t
          THEN IF Has(sc.world_diff)
               THEN Upd(scs, n, [sc EXCEPT !.world_diff =
                                   Some(MapPut(Val(@), OCTOMAP_NS, {"DESTROY", "CREATE", "ADD_SHAPE"}))])
               ELSE scs
          ELSE Upd(scs, n, moveShapesInObject(sc, OCTOMAP_NS, <<t>>))
     ELSE Upd(scs, n, addShapeToObject(removeObject(sc, OCTOMAP_NS), OCTOMAP_NS, OcTreeShape(octree), t))

\* ------------------------------------------------------------------------
\* Planning scene messages
\* ------------------------------------------------------------------------

PlanningSceneMsg(fixed_frame_transforms, robot_state, acm_entry_names, link_padding, link_scale, object_colors, collision_objects, octomap) ==
  [fixed_frame_transforms |-> fixed_frame_transforms, robot_state |-> robot_state,
   acm_entry_names |-> acm_entry_names, link_padding |-> link_padding, link_scale |-> link_scale,
   object_colors |-> object_colors, collision_objects |-> collision_objects, octomap |-> octomap]

RECURSIVE setObjectColors(_, _, _)
\* the loop over scene_msg.object_colors
setObjectColors(sc, object_colors, i) ==
  IF i > Len(object_colors) THEN sc
  ELSE setObjectColors(setObjectColor(sc, object_colors[i][1], object_colors[i][2]), object_colors, i + 1)

RECURSIVE processCollisionObjectMsgs(_, _, _, _)
\* the loop `result &= processCollisionObjectMsg(collision_object)`: [scs, ret]
processCollisionObjectMsgs(acc, n, collision_objects, i) ==
  IF i > Len(collision_objects) THEN acc
  ELSE LET r == processCollisionObjectMsg(acc.scs, n, collision_objects[i])
       IN processCollisionObjectMsgs([scs |-> r.scs, ret |-> acc.ret /\ r.ret], n, collision_objects, i + 1)

\* setPlanningSceneDiffMsg, the fixed frame transforms of the message: the
\* table is allocated when the scene has none, then filled from the message
setTransformsFromMsg(scs, n, scene_msg) ==
  IF scene_msg.fixed_frame_transforms = EmptyMap THEN scs
  ELSE Upd(scs, n, [scs[n] EXCEPT !.scene_transforms =
                      Some(MapInsertAll(scene_msg.fixed_frame_transforms,
                                        IF Has(@) THEN Val(@) ELSE [f \in {ModelFrame} |-> Identity]))])

\* setPlanningSceneDiffMsg, the robot state of the message; the result of
\* setCurrentState is not looked at
setRobotStateFromMsg(scs, n, scene_msg) ==
  IF scene_msg.robot_state.joints = "" /\ scene_msg.robot_state.attached_collision_objects = <<>>
  THEN scs
  ELSE setCurrentState(scs, n, scene_msg.robot_state)

\* setPlanningSceneDiffMsg, the allowed collision matrix of the message
setAcmFromMsg(scs, n, scene_msg) ==
  IF scene_msg.acm_entry_names = {} THEN scs
  ELSE Upd(scs, n, [scs[n] EXCEPT !.acm = Some(scene_msg.acm_entry_names)])

\* setPlanningSceneDiffMsg, link padding and scale: set on the padded
\* collision environment of the scene; a message that names no link leaves
\* the value
setPaddingFromMsg(scs, n, scene_msg) ==
  Upd(scs, n, [scs[n] EXCEPT
     !.cenv.padding = IF scene_msg.link_padding = "" THEN @ ELSE scene_msg.link_padding,
     !.cenv.scale = IF scene_msg.link_scale = "" THEN @ ELSE scene_msg.link_scale])

\* setPlanningSceneDiffMsg, the object colors of the message
setColorsFromMsg(scs, n, scene_msg) ==
  Upd(scs, n, setObjectColors(scs[n], scene_msg.object_colors, 1))

\* setPlanningSceneDiffMsg, the occupancy map of the message: acc is [scs, ret]
setOctomapFromMsg(acc, n, scene_msg) ==
  IF scene_msg.octomap.id = "" THEN acc
  ELSE [acc EXCEPT !.scs = processOctomapWithPoseMsg(@, n, scene_msg.octomap)]

\* PlanningScene::setPlanningSceneDiffMsg: [scs, ret]
setPlanningSceneDiffMsg(scs, n, scene_msg) ==
  setOctomapFromMsg(
    processCollisionObjectMsgs(
      [scs |-> setColorsFromMsg(
                 setPaddingFromMsg(
                   setAcmFromMsg(
                     setRobotStateFromMsg(
                       setTransformsFromMsg(scs, n, scene_msg),
                       n, scene_msg),
                     n, scene_msg),
                   n, scene_msg),
                 n, scene_msg),
       ret |-> TRUE],
      n, scene_msg.collision_objects, 1),
    n, scene_msg)

\* ------------------------------------------------------------------------
\* The scene hierarchy: diff() and pushDiffs
\* ------------------------------------------------------------------------

\* a PlanningScene(parent) whose collision environments do not take the
\* padding and scale of the parent
ForkedSceneDefaultPadding(parent) ==
  [NoScene EXCEPT !.exists = TRUE,
                  !.parent = TRUE,
                  !.world = parent.world,
                  !.world_diff = Some(EmptyMap)]

\* PlanningScene(parent), allocateCollisionDetector(alloc, parent_detector) and
\* CollisionDetector::copyPadding
ForkedScene(parent) ==
  [NoScene EXCEPT !.exists = TRUE,
                  !.parent = TRUE,
                  !.world = parent.world,
                  !.world_diff = Some(EmptyMap),
                  !.cenv = parent.cenv,
                  !.cenv_unpadded = parent.cenv_unpadded]

\* PlanningScene::diff(), called on the root scene: the scene F
diff(scs) == Upd(scs, "F", ForkedScene(scs["S"]))

\* pushDiffs: the robot state, and the types and colors of its attached bodies
RECURSIVE pushAttachedColors(_, _, _, _)
pushAttachedColors(scs, n, t, names) ==
  IF names = {} THEN scs[t]
  ELSE LET name == CHOOSE x \in names : TRUE
           c1 == pushAttachedColors(scs, n, t, names \ {name})
           c2 == IF hasObjectType(scs, n, name) THEN setObjectType(c1, name, getObjectType(scs, n, name))
                 ELSE c1
       IN IF hasObjectColor(scs, n, name) THEN setObjectColor(c2, name, getObjectColor(scs, n, name))
          ELSE c2

\* a pushDiffs entry that adds the changed object to the object the target
\* holds instead of replacing it
pushWorldDiffEntryKeepObject(scs, n, t, id) ==
  IF Val(scs[n].world_diff)[id] = {"DESTROY"}
  THEN LET c1 == removeObjectType(removeObjectColor(removeObject(scs[t], id), id), id)
           s1 == Upd(scs, t, c1)
       IN IF ~hasAttachedBody(getCurrentState(s1, t), id) THEN acmRemoveEntry(s1, t, id) ELSE s1
  ELSE IF ~hasObject(scs[n], id) THEN scs
  ELSE LET obj == scs[n].world[id]
           c1 == addToObject(scs[t], id, obj.pose, obj.shapes, obj.shape_poses)
           c2 == IF hasObjectColor(scs, n, id) THEN setObjectColor(c1, id, getObjectColor(scs, n, id)) ELSE c1
           c3 == IF hasObjectType(scs, n, id) THEN setObjectType(c2, id, getObjectType(scs, n, id)) ELSE c2
       IN Upd(scs, t, setSubframesOfObject(c3, id, obj.subframe_poses))

\* a pushDiffs entry that removes the matrix entry of a destroyed object even
\* when the object has become an attached body
pushWorldDiffEntryDropAcm(scs, n, t, id) ==
  IF Val(scs[n].world_diff)[id] = {"DESTROY"}
  THEN acmRemoveEntry(Upd(scs, t, removeObjectType(removeObjectColor(removeObject(scs[t], id), id), id)),
                      t, id)
  ELSE IF ~hasObject(scs[n], id) THEN scs
  ELSE LET obj == scs[n].world[id]
           c1 == addToObject(removeObject(scs[t], id), id, obj.pose, obj.shapes, obj.shape_poses)
           c2 == IF hasObjectColor(scs, n, id) THEN setObjectColor(c1, id, getObjectColor(scs, n, id)) ELSE c1
           c3 == IF hasObjectType(scs, n, id) THEN setObjectType(c2, id, getObjectType(scs, n, id)) ELSE c2
       IN Upd(scs, t, setSubframesOfObject(c3, id, obj.subframe_poses))

\* pushDiffs: one entry of the world diff, applied to the scene t
pushWorldDiffEntry(scs, n, t, id) ==
  IF Val(scs[n].world_diff)[id] = {"DESTROY"}
  THEN LET c1 == removeObjectType(removeObjectColor(removeObject(scs[t], id), id), id)
           s1 == Upd(scs, t, c1)
       IN IF ~hasAttachedBody(getCurrentState(s1, t), id) THEN acmRemoveEntry(s1, t, id) ELSE s1
  ELSE IF ~hasObject(scs[n], id) THEN scs
  ELSE LET obj == scs[n].world[id]
           c1 == addToObject(removeObject(scs[t], id), id, obj.pose, obj.shapes, obj.shape_poses)
           c2 == IF hasObjectColor(scs, n, id) THEN setObjectColor(c1, id, getObjectColor(scs, n, id)) ELSE c1
           c3 == IF hasObjectType(scs, n, id) THEN setObjectType(c2, id, getObjectType(scs, n, id)) ELSE c2
       IN Upd(scs, t, setSubframesOfObject(c3, id, obj.subframe_poses))

RECURSIVE pushWorldDiff(_, _, _, _)
pushWorldDiff(scs, n, t, ids) ==
  IF ids = {} THEN scs
  ELSE LET id == CHOOSE x \in ids : TRUE
       IN pushWorldDiff(pushWorldDiffEntry(scs, n, t, id), n, t, ids \ {id})

\* a pushDiffs that does not return at once when the scene has no parent
pushDiffsWithoutParent(scs, n, t) ==
  LET s1 == IF Has(scs[n].scene_transforms)
            THEN Upd(scs, t, [getCurrentStateNonConst(scs, t)[t] EXCEPT
                                !.scene_transforms = scs[n].scene_transforms])
            ELSE scs
      s2 == IF Has(s1[n].robot_state)
            THEN LET a == Upd(s1, t, withRobotState(s1[t], Val(s1[n].robot_state)))
                 IN Upd(a, t, pushAttachedColors(a, n, t, DOMAIN Val(s1[n].robot_state).attached))
            ELSE s1
      s3 == IF Has(s2[n].acm) THEN Upd(s2, t, [s2[t] EXCEPT !.acm = s2[n].acm]) ELSE s2
      s4 == Upd(s3, t, [s3[t] EXCEPT !.cenv = s3[n].cenv])
  IN IF Has(s4[n].world_diff) THEN pushWorldDiff(s4, n, t, DOMAIN Val(s4[n].world_diff)) ELSE s4

\* PlanningScene::pushDiffs(scene), called on the scene n with scene = t
pushDiffs(scs, n, t) ==
  IF ~scs[n].parent THEN scs
  ELSE LET s1 == IF Has(scs[n].scene_transforms)
                 THEN Upd(scs, t, [getCurrentStateNonConst(scs, t)[t] EXCEPT
                                     !.scene_transforms = scs[n].scene_transforms])
                 ELSE scs
           s2 == IF Has(s1[n].robot_state)
                 THEN LET a == Upd(s1, t, withRobotState(s1[t], Val(s1[n].robot_state)))
                      IN Upd(a, t, pushAttachedColors(a, n, t, DOMAIN Val(s1[n].robot_state).attached))
                 ELSE s1
           s3 == IF Has(s2[n].acm) THEN Upd(s2, t, [s2[t] EXCEPT !.acm = s2[n].acm]) ELSE s2
           s4 == Upd(s3, t, [s3[t] EXCEPT !.cenv = s3[n].cenv])
       IN IF Has(s4[n].world_diff) THEN pushWorldDiff(s4, n, t, DOMAIN Val(s4[n].world_diff)) ELSE s4

\* ------------------------------------------------------------------------
\* The scene hierarchy: clearDiffs, decoupleParent and clone
\* ------------------------------------------------------------------------

\* a clearDiffs that keeps the World of the scene and only starts the change
\* log anew
clearDiffsKeepWorld(scs, n) ==
  IF ~scs[n].parent THEN scs
  ELSE Upd(scs, n, [scs[n] EXCEPT !.world_diff = Some(EmptyMap),
                                  !.cenv = scs[Parent(n)].cenv,
                                  !.cenv_unpadded = scs[Parent(n)].cenv_unpadded,
                                  !.scene_transforms = None,
                                  !.robot_state = None,
                                  !.acm = None,
                                  !.object_colors = None,
                                  !.object_types = None])

\* PlanningScene::clearDiffs: the World is copied from the parent again, the
\* change log starts anew, the collision environments are copy-constructed
\* from the parent's, and the scene's own transforms, robot state, matrix,
\* colors and types are dropped (original_object_colors_ is not)
clearDiffs(scs, n) ==
  IF ~scs[n].parent THEN scs
  ELSE Upd(scs, n, [scs[n] EXCEPT !.world = scs[Parent(n)].world,
                                  !.world_diff = Some(EmptyMap),
                                  !.cenv = scs[Parent(n)].cenv,
                                  !.cenv_unpadded = scs[Parent(n)].cenv_unpadded,
                                  !.scene_transforms = None,
                                  !.robot_state = None,
                                  !.acm = None,
                                  !.object_colors = None,
                                  !.object_types = None])

\* PlanningScene::getKnownObjectColors: the parent's entries, then the
\* scene's own over them
getKnownObjectColors(scs, n) ==
  MapInsertAll(IF Has(scs[n].object_colors) THEN Val(scs[n].object_colors) ELSE EmptyMap,
               IF scs[n].parent /\ Has(scs[Parent(n)].object_colors)
               THEN Val(scs[Parent(n)].object_colors) ELSE EmptyMap)

\* PlanningScene::getKnownObjectTypes
getKnownObjectTypes(scs, n) ==
  MapInsertAll(IF Has(scs[n].object_types) THEN Val(scs[n].object_types) ELSE EmptyMap,
               IF scs[n].parent /\ Has(scs[Parent(n)].object_types)
               THEN Val(scs[Parent(n)].object_types) ELSE EmptyMap)

\* a decoupleParent in which the entries of the parent replace the scene's own
\* colors and types
decoupleParentOverwrite(scs, n) ==
  IF ~scs[n].parent THEN scs
  ELSE Upd(scs, n,
         [scs[n] EXCEPT
            !.scene_transforms = IF Has(@) THEN @ ELSE Some(getTransforms(scs, Parent(n))),
            !.robot_state = IF Has(@) THEN @ ELSE Some(getCurrentState(scs, Parent(n))),
            !.acm = IF Has(@) THEN @ ELSE Some(getAllowedCollisionMatrix(scs, Parent(n))),
            !.world_diff = None,
            !.object_colors =
               Some(MapInsertAll(getKnownObjectColors(scs, Parent(n)), IF Has(@) THEN Val(@) ELSE EmptyMap)),
            !.object_types =
               Some(MapInsertAll(getKnownObjectTypes(scs, Parent(n)), IF Has(@) THEN Val(@) ELSE EmptyMap)),
            !.parent = FALSE])

\* PlanningScene::decoupleParent: what was read from the parent is copied, the
\* colors and types the parent knows are added where the scene has no entry of
\* its own, the change log and the parent are dropped
decoupleParent(scs, n) ==
  IF ~scs[n].parent THEN scs
  ELSE Upd(scs, n,
         [scs[n] EXCEPT
            !.scene_transforms = IF Has(@) THEN @ ELSE Some(getTransforms(scs, Parent(n))),
            !.robot_state = IF Has(@) THEN @ ELSE Some(getCurrentState(scs, Parent(n))),
            !.acm = IF Has(@) THEN @ ELSE Some(getAllowedCollisionMatrix(scs, Parent(n))),
            !.world_diff = None,
            !.object_colors =
               Some(MapInsertAll(IF Has(@) THEN Val(@) ELSE EmptyMap, getKnownObjectColors(scs, Parent(n)))),
            !.object_types =
               Some(MapInsertAll(IF Has(@) THEN Val(@) ELSE EmptyMap, getKnownObjectTypes(scs, Parent(n)))),
            !.parent = FALSE])

\* PlanningScene::clone(scene), called with the root scene: the scene F
clone(scs) == decoupleParent(diff(scs), "F")

\* a setAllowedCollisionMatrix that assigns through to the matrix the scene
\* reads, which is the parent's as long as the scene has none of its own
setAllowedCollisionMatrixShared(scs, n, acm) ==
  IF Has(scs[n].acm) THEN Upd(scs, n, [scs[n] EXCEPT !.acm = Some(acm)])
  ELSE Upd(scs, Parent(n), [scs[Parent(n)] EXCEPT !.acm = Some(acm)])

\* PlanningScene::setAllowedCollisionMatrix
setAllowedCollisionMatrix(scs, n, acm) ==
  Upd(scs, n, [getAllowedCollisionMatrixNonConst(scs, n)[n] EXCEPT !.acm = Some(acm)])

\* ------------------------------------------------------------------------
\* The messages the callers send
\* ------------------------------------------------------------------------

\* CollisionObject messages (ADD and APPEND with geometry of several kinds,
\* MOVE with no, one or two shape poses, REMOVE), AttachedCollisionObject
\* messages and PlanningScene messages
Messages ==
  LET Geometry(primitives, primitive_poses, meshes, mesh_poses, planes, plane_poses) ==
        [primitives |-> primitives, primitive_poses |-> primitive_poses,
         meshes |-> meshes, mesh_poses |-> mesh_poses,
         planes |-> planes, plane_poses |-> plane_poses]
      NoGeometry == Geometry(<<>>, <<>>, <<>>, <<>>, <<>>, <<>>)
      OnePrimitive == Geometry(<<"prim_a">>, <<PoseMsg(PoseA)>>, <<>>, <<>>, <<>>, <<>>)
      PrimitiveAndMesh ==
        Geometry(<<"prim_b">>, <<PoseMsg(PoseA)>>, <<"mesh_a">>, <<>>, <<>>, <<>>)
      MorePosesThanShapes ==
        Geometry(<<"prim_a">>, <<PoseMsg(PoseA), PoseMsg(PoseB)>>, <<>>, <<>>, <<>>, <<>>)
      OnePlane == Geometry(<<>>, <<>>, <<>>, <<>>, <<"plane_a">>, <<PoseMsg(PoseB)>>)
      OneShapePose == Geometry(<<>>, <<PoseMsg(PoseB)>>, <<>>, <<>>, <<>>, <<>>)
      TwoShapePoses == Geometry(<<>>, <<PoseMsg(PoseB)>>, <<>>, <<PoseMsg(PoseA)>>, <<>>, <<>>)
      Payload(frame_id, pose, geometry, subframes, type) ==
        [frame_id |-> frame_id, pose |-> pose, geometry |-> geometry,
         subframes |-> subframes, type |-> type]
      OneSubframe == [f \in {"sub"} |-> PoseMsg(PoseA)]
      EmptyPayload == Payload(ModelFrame, EmptyPoseMsg, NoGeometry, EmptyMap, "")
      AddPayloads ==
        { Payload(ModelFrame, EmptyPoseMsg, OnePrimitive, EmptyMap, ""),
          Payload("L1", PoseMsg(PoseB), PrimitiveAndMesh, OneSubframe, "type1"),
          Payload(ModelFrame, PoseMsg(PoseB), MorePosesThanShapes, EmptyMap, ""),
          Payload("nowhere", EmptyPoseMsg, OnePlane, EmptyMap, ""),
          EmptyPayload }
      MovePayloads ==
        { Payload(ModelFrame, PoseMsg(PoseB), NoGeometry, EmptyMap, ""),
          Payload("L1", PoseMsg(PoseA), OneShapePose, EmptyMap, ""),
          Payload(ModelFrame, PoseMsg(PoseB), TwoShapePoses, EmptyMap, "") }
      Make(id, operation, pl) ==
        CollisionObjectMsg(id, operation, pl.frame_id, pl.pose,
                           pl.geometry.primitives, pl.geometry.primitive_poses,
                           pl.geometry.meshes, pl.geometry.mesh_poses,
                           pl.geometry.planes, pl.geometry.plane_poses, pl.subframes, pl.type)
      NoOctomap == OctomapMsg("", "", "", EmptyPoseMsg)
      NoRobotState == RobotStateMsg("", TRUE, <<>>)
  IN [collision_objects |->
        {Make(id, op, pl) : id \in {"box", OCTOMAP_NS}, op \in {"ADD", "APPEND"}, pl \in AddPayloads}
        \cup {Make(id, "MOVE", pl) : id \in {"box", OCTOMAP_NS}, pl \in MovePayloads}
        \cup {Make(id, "REMOVE", EmptyPayload) : id \in {"box", "can", "", OCTOMAP_NS}}
        \cup {Make("can", "ADD", Payload(ModelFrame, EmptyPoseMsg, OnePrimitive, EmptyMap, ""))},
      attached_collision_objects |->
        {AttachedCollisionObjectMsg(Make(id, op, pl), link, {}, "") :
           id \in {"box", OCTOMAP_NS}, op \in {"ADD", "APPEND"}, link \in {"L1", "nolink"},
           pl \in {EmptyPayload, Payload("L1", PoseMsg(PoseB), PrimitiveAndMesh, OneSubframe, "type1")}}
        \cup {AttachedCollisionObjectMsg(Make(id, "APPEND", pl), "L1", {"L2"}, "open") :
                id \in {"box"},
                pl \in {Payload(ModelFrame, EmptyPoseMsg, OnePrimitive, EmptyMap, ""),
                        Payload(ModelFrame, PoseMsg(PoseB), MorePosesThanShapes, EmptyMap, "")}}
        \cup {AttachedCollisionObjectMsg(Make("can", "ADD", EmptyPayload), "L2", {"L1"}, "open")}
        \cup {AttachedCollisionObjectMsg(Make(id, "REMOVE", EmptyPayload), link, {}, "") :
                id \in {"box", "", OCTOMAP_NS}, link \in {"", "L1", "L2"}}
        \cup {AttachedCollisionObjectMsg(Make("", "REMOVE", EmptyPayload), "nolink", {}, "")}
        \cup {AttachedCollisionObjectMsg(Make("box", "MOVE", EmptyPayload), "L1", {}, "")},
      planning_scenes |->
        { PlanningSceneMsg(EmptyMap, NoRobotState, {}, "pad1", "", <<>>, <<>>, NoOctomap),
          PlanningSceneMsg(EmptyMap, NoRobotState, {}, "", "scale2",
                           << <<"box", "red">> >>,
                           << Make("box", "ADD",
                                Payload(ModelFrame, PoseMsg(PoseB), PrimitiveAndMesh, OneSubframe, "type1")) >>,
                           NoOctomap),
          PlanningSceneMsg([f \in {"fixed1"} |-> PoseA], NoRobotState, {"L1", "box"}, "", "", <<>>, <<>>,
                           OctomapMsg("OcTree", "d1", ModelFrame, PoseMsg(PoseA))),
          PlanningSceneMsg([f \in {"fixed2"} |-> PoseB], NoRobotState, {}, "", "", <<>>, <<>>, NoOctomap),
          PlanningSceneMsg(EmptyMap,
                           RobotStateMsg("q1", TRUE,
                             << AttachedCollisionObjectMsg(Make("box", "ADD", EmptyPayload),
                                                           "L1", {}, "") >>),
                           {}, "", "", <<>>,
                           << Make("can", "ADD",
                                Payload(ModelFrame, EmptyPoseMsg, OnePrimitive, EmptyMap, "")) >>,
                           NoOctomap) }]

\* the CollisionObject messages processCollisionObjectMsg is called with
CollisionObjectMsgs == Messages.collision_objects

\* the AttachedCollisionObject messages processAttachedCollisionObjectMsg is
\* called with
AttachedCollisionObjectMsgs == Messages.attached_collision_objects

\* the colors setObjectColor is called with
Colors == {"red", "blue"}

\* the RobotState messages setCurrentState is called with
RobotStateMsgs == {RobotStateMsg("q1", TRUE, <<>>), RobotStateMsg("q0", TRUE, <<>>)}

\* the Octomap messages processOctomapMsg is called with
OctomapMsgs ==
  { OctomapMsg("OcTree", "d1", ModelFrame, PoseMsg(PoseA)),
    OctomapMsg("OcTree", "d2", "L1", EmptyPoseMsg),
    OctomapMsg("OcTree", "d2", "", EmptyPoseMsg),
    OctomapMsg("OcTree", "", ModelFrame, EmptyPoseMsg),
    OctomapMsg("ColorOcTree", "d1", ModelFrame, EmptyPoseMsg) }

\* the PlanningScene messages setPlanningSceneDiffMsg is called with
PlanningSceneMsgs == Messages.planning_scenes

\* the World a root scene is constructed on
InitialWorlds ==
  { EmptyMap,
    [id \in {"box"} |-> Object(PoseA, <<"prim_a", "mesh_a">>, <<Identity, PoseB>>,
                               [f \in {"sub"} |-> PoseB])] }

\* ------------------------------------------------------------------------
\* Collision queries.  A robot state is seen by what the collision checks read
\* of it: `env` is how close the robot is to the world ("contact", "near":
\* within the padding but not touching, "far"), `self` whether links of the
\* robot touch each other, `body_env` the closeness its collision body
\* transforms stand for, which lags behind `env` while the transforms are
\* dirty.  A result records, beside its fields, which collision environment
\* answered the check against the world and the self check.
\* ------------------------------------------------------------------------

\* the requests of the callers: max_contacts is read only when contacts is set
CollisionRequests ==
  { req \in [pad_environment_collisions : BOOLEAN, pad_self_collisions : BOOLEAN,
             contacts : BOOLEAN, max_contacts : {1, 2}] :
      req.contacts \/ req.max_contacts = 1 }

\* a CollisionResult as the caller constructs it
EmptyResult == [collision |-> FALSE, contact_count |-> 0, env_used |-> "none", self_used |-> "none"]

QueryState(env, self, dirty, body_env) ==
  [env |-> env, self |-> self, dirty |-> dirty, body_env |-> body_env]

\* the robot states a caller can hold: up to date, or moved since the
\* collision body transforms were computed
QueryStates ==
  { QueryState("far", "far", FALSE, "far"), QueryState("near", "far", FALSE, "near"),
    QueryState("contact", "far", FALSE, "contact"), QueryState("far", "contact", FALSE, "far"),
    QueryState("near", "far", TRUE, "far"), QueryState("far", "far", TRUE, "contact") }

\* RobotState::updateCollisionBodyTransforms
updateCollisionBodyTransforms(robot_state) ==
  [robot_state EXCEPT !.body_env = robot_state.env, !.dirty = FALSE]

\* CollisionEnv::checkRobotCollision of the padded or the unpadded environment:
\* the padded one also reports a robot within the padding; acm tells whether
\* the matrix allows the contact of the robot with the world
checkRobotCollision(padded, req, res, robot_state, acm) ==
  LET hit == ~acm /\ (robot_state.body_env = "contact" \/ (padded /\ robot_state.body_env = "near"))
      r1 == [res EXCEPT !.env_used = IF padded THEN "padded" ELSE "unpadded"]
  IN IF hit
     THEN [r1 EXCEPT !.collision = TRUE,
                     !.contact_count = IF req.contacts /\ @ < req.max_contacts THEN @ + 1 ELSE @]
     ELSE r1

\* CollisionEnv::checkSelfCollision of the padded or the unpadded environment
checkSelfCollisionEnv(padded, req, res, robot_state) ==
  LET r1 == [res EXCEPT !.self_used = IF padded THEN "padded" ELSE "unpadded"]
  IN IF robot_state.self = "contact"
     THEN [r1 EXCEPT !.collision = TRUE,
                     !.contact_count = IF req.contacts /\ @ < req.max_contacts THEN @ + 1 ELSE @]
     ELSE r1

\* a checkCollision that checks the robot against itself first and against
\* the world afterwards
checkCollisionConstSelfFirst(req, res, robot_state, acm) ==
  LET r1 == checkSelfCollisionEnv(req.pad_self_collisions, req, res, robot_state)
  IN IF r1.collision /\ (~req.contacts \/ r1.contact_count >= req.max_contacts) THEN r1
     ELSE checkRobotCollision(req.pad_environment_collisions, req, r1, robot_state, acm)

\* PlanningScene::checkCollision(req, res, const RobotState&, acm)
checkCollisionConst(req, res, robot_state, acm) ==
  LET r1 == checkRobotCollision(req.pad_environment_collisions, req, res, robot_state, acm)
  IN IF r1.collision /\ (~req.contacts \/ r1.contact_count >= req.max_contacts) THEN r1
     ELSE checkSelfCollisionEnv(req.pad_self_collisions, req, r1, robot_state)

Overloads == {"current", "current_const", "state", "state_const", "state_acm", "state_acm_const"}

\* the overloads of PlanningScene::checkCollision: [robot_state, res].  Those
\* without a state use the current state of the scene (the caller passes it as
\* robot_state), those without a matrix the matrix of the scene.
checkCollision(overload, req, res, robot_state, acm) ==
  LET rs == IF overload \in {"current", "state", "state_acm"} /\ robot_state.dirty
            THEN updateCollisionBodyTransforms(robot_state)
            ELSE robot_state
  IN [robot_state |-> rs, res |-> checkCollisionConst(req, res, rs, acm)]

\* the overloads of PlanningScene::checkCollisionUnpadded: [robot_state, res]
checkCollisionUnpadded(overload, req, res, robot_state, acm) ==
  LET new_req == [req EXCEPT !.pad_environment_collisions = FALSE]
  IN CASE overload = "current" -> checkCollision("state_acm", req, res, robot_state, acm)
       [] overload = "current_const" -> checkCollision("state_acm_const", new_req, res, robot_state, acm)
       [] overload = "state_const" -> checkCollision("state_acm_const", new_req, res, robot_state, acm)
       [] overload = "state" -> checkCollision("state_acm_const", new_req, res, robot_state, acm)
       [] overload = "state_acm" ->
            checkCollision("state_acm_const", new_req, res, updateCollisionBodyTransforms(robot_state), acm)
       [] overload = "state_acm_const" -> checkCollision("state_acm_const", req, res, robot_state, acm)

\* the overloads of PlanningScene::checkSelfCollision: [robot_state, res]
checkSelfCollision(overload, req, res, robot_state, acm) ==
  LET rs == IF overload \in {"current", "state", "state_acm"} /\ robot_state.dirty
            THEN updateCollisionBodyTransforms(robot_state)
            ELSE robot_state
  IN [robot_state |-> rs, res |-> checkSelfCollisionEnv(req.pad_self_collisions, req, res, rs)]

\* ------------------------------------------------------------------------
\* Scene geometry as text.  A text is a sequence of lines, each ended by a
\* newline; a line is the sequence of its tokens, which are numbers or words.
\* A pose of this part is [x, q]: the x coordinate of its translation in units
\* of 1e-7 (the other coordinates are 0) and its rotation.  An input stream is
\* the text, the place reached in it (l: the line, t: the tokens of that line
\* already read) and the state bits eofbit and failbit.
\* ------------------------------------------------------------------------

Num(n) == [num |-> n]

Word(w) == [word |-> w]

\* operator<<(double) with the precision of a stream as constructed: six
\* significant digits
formatDouble(v) == IF v < 1000000 THEN v ELSE ((v + 5) \div 10) * 10

\* writePoseToText: the lines of the translation and of the rotation
writePoseToText(pose) ==
  << <<Num(formatDouble(pose.x)), Num(0), Num(0)>>,
     <<Num(pose.q[1]), Num(pose.q[2]), Num(pose.q[3]), Num(1)>> >>

\* operator<< of the components r g b a of a color
colorToText(color) ==
  IF color = "red" THEN <<Num(1), Num(0), Num(0), Num(1)>>
  ELSE IF color = "blue" THEN <<Num(0), Num(0), Num(1), Num(1)>>
  ELSE <<Num(0), Num(0), Num(0), Num(0)>>

RECURSIVE saveShapes(_, _, _, _)
\* saveGeometryToStream, the loop over the shapes of the object id: the text
\* of shapes::saveAsText, the shape pose, and the color of the object
saveShapes(scs, n, id, j) ==
  IF j > Len(scs[n].world[id].shapes) THEN <<>>
  ELSE << <<Word("shape"), Word(scs[n].world[id].shapes[j])>> >>
       \o writePoseToText(scs[n].world[id].shape_poses[j])
       \o << IF hasObjectColor(scs, n, id) THEN colorToText(getObjectColor(scs, n, id))
             ELSE <<Num(0), Num(0), Num(0), Num(0)>> >>
       \o saveShapes(scs, n, id, j + 1)

\* the ids and the subframe names in the order of the std::map that holds them
SortedNames == <<OCTOMAP_NS, "box", "can", "sub", "tip">>

RECURSIVE saveSubframes(_, _)
\* saveGeometryToStream, the loop over the subframes
saveSubframes(subframe_poses, k) ==
  IF k > Len(SortedNames) THEN <<>>
  ELSE (IF SortedNames[k] \in DOMAIN subframe_poses
        THEN << <<Word(SortedNames[k])>> >> \o writePoseToText(subframe_poses[SortedNames[k]])
        ELSE <<>>)
       \o saveSubframes(subframe_poses, k + 1)

RECURSIVE saveObjects(_, _, _)
\* saveGeometryToStream, the loop over the object ids
saveObjects(scs, n, k) ==
  IF k > Len(SortedNames) THEN <<>>
  ELSE (IF SortedNames[k] # OCTOMAP_NS /\ hasObject(scs[n], SortedNames[k])
        THEN << <<Word("*"), Word(SortedNames[k])>> >>
             \o writePoseToText(scs[n].world[SortedNames[k]].pose)
             \o << <<Num(Len(scs[n].world[SortedNames[k]].shapes))>> >>
             \o saveShapes(scs, n, SortedNames[k], 1)
             \o << <<Num(Cardinality(DOMAIN scs[n].world[SortedNames[k]].subframe_poses))>> >>
             \o saveSubframes(scs[n].world[SortedNames[k]].subframe_poses, 1)
        ELSE <<>>)
       \o saveObjects(scs, n, k + 1)

\* PlanningScene::saveGeometryToStream: the text written for the scene n
saveGeometryToStream(scs, n, name) ==
  << IF name = "" THEN <<>> ELSE <<Word(name)>> >> \o saveObjects(scs, n, 1) \o << <<Word(".")>> >>

\* a std::istream opened on a text
Stream(lines) == [lines |-> lines, l |-> 1, t |-> 0, eof |-> FALSE, fail |-> FALSE]

\* std::ios::good
good(in) == ~in.eof /\ ~in.fail

\* std::getline(in, line): [in, line].  A stream that is not good only gets
\* failbit and the line is left; at the end of the text the line is emptied
\* and eofbit and failbit are set.
getline(in, line) ==
  IF ~good(in) THEN [in |-> [in EXCEPT !.fail = TRUE], line |-> line]
  ELSE IF in.l > Len(in.lines) THEN [in |-> [in EXCEPT !.eof = TRUE, !.fail = TRUE], line |-> <<>>]
  ELSE [in |-> [in EXCEPT !.l = @ + 1, !.t = 0],
        line |-> SubSeq(in.lines[in.l], in.t + 1, Len(in.lines[in.l]))]

RECURSIVE skipws(_)
\* the sentry of operator>>: white space and newlines are skipped
skipws(in) ==
  IF in.l > Len(in.lines) THEN [in EXCEPT !.eof = TRUE, !.fail = TRUE]
  ELSE IF in.t < Len(in.lines[in.l]) THEN in
  ELSE skipws([in EXCEPT !.l = @ + 1, !.t = 0])

\* in >> token: [in, tok]; tok is <<>> when nothing was read
readToken(in) ==
  IF ~good(in) THEN [in |-> [in EXCEPT !.fail = TRUE], tok |-> <<>>]
  ELSE IF ~good(skipws(in)) THEN [in |-> skipws(in), tok |-> <<>>]
  ELSE [in |-> [skipws(in) EXCEPT !.t = @ + 1],
        tok |-> <<skipws(in).lines[skipws(in).l][skipws(in).t + 1]>>]

\* in >> number (double or unsigned): [in, val]; a word sets failbit and
\* gives 0
readNumber(r) ==
  IF r.tok # <<>> /\ DOMAIN r.tok[1] = {"num"} THEN [in |-> r.in, val |-> r.tok[1].num]
  ELSE [in |-> [r.in EXCEPT !.fail = TRUE], val |-> 0]

RECURSIVE readNumbers(_, _)
\* in >> a >> b >> ... for k numbers: [in, vals]
readNumbers(acc, k) ==
  IF k = 0 THEN acc
  ELSE readNumbers([in |-> readNumber(readToken(acc.in)).in,
                    vals |-> Append(acc.vals, readNumber(readToken(acc.in)).val)], k - 1)

\* readPoseFromText: [in, ok, pose]
readPoseFromText(in) ==
  LET r == readNumbers([in |-> in, vals |-> <<>>], 7)
  IN [in |-> r.in, ok |-> ~r.in.fail,
      pose |-> [x |-> r.vals[1], q |-> <<r.vals[4], r.vals[5], r.vals[6]>>]]

\* the color of the components r g b a read from a text
colorFromText(vals) ==
  IF vals = <<1, 0, 0, 1>> THEN "red"
  ELSE IF vals = <<0, 0, 1, 1>> THEN "blue"
  ELSE "other"

\* shapes::constructShapeFromText: [in, shape], shape is None when the text is
\* not the one of a shape
constructShapeFromText(in) ==
  LET r == readToken(readToken(in).in)
  IN IF readToken(in).tok = <<Word("shape")>> /\ r.tok # <<>> /\ DOMAIN r.tok[1] = {"word"}
     THEN [in |-> r.in, shape |-> Some(r.tok[1].word)]
     ELSE [in |-> r.in, shape |-> None]

RECURSIVE loadShapes(_, _, _, _, _)
\* loadGeometryFromStream, the loop over the shapes of one object:
\* [sc, in, ok], ok FALSE when the function returns false in the loop; a
\* shape read is added to the object and a color that is not 0 0 0 0 is set
loadShapes(sc, in, object_id, shape_count, i) ==
  IF ~(i < shape_count /\ good(in)) THEN [sc |-> sc, in |-> in, ok |-> TRUE]
  ELSE LET s == constructShapeFromText(in)
           p == readPoseFromText(s.in)
           c == readNumbers([in |-> p.in, vals |-> <<>>], 4)
       IN IF ~Has(s.shape) THEN [sc |-> sc, in |-> s.in, ok |-> FALSE]
          ELSE IF ~p.ok THEN [sc |-> sc, in |-> p.in, ok |-> FALSE]
          ELSE IF c.in.fail THEN [sc |-> sc, in |-> c.in, ok |-> FALSE]
          ELSE loadShapes(IF ~(c.vals[1] > 0 \/ c.vals[2] > 0 \/ c.vals[3] > 0 \/ c.vals[4] > 0)
                          THEN addShapeToObject(sc, object_id, Val(s.shape), p.pose)
                          ELSE setObjectColor(addShapeToObject(sc, object_id, Val(s.shape), p.pose),
                                              object_id, colorFromText(c.vals)),
                          c.in, object_id, shape_count, i + 1)

RECURSIVE loadSubframes(_, _, _, _)
\* loadGeometryFromStream, the loop over the subframes: [in, subframes, ok]
loadSubframes(in, subframes, subframe_count, i) ==
  IF ~(i < subframe_count /\ good(in)) THEN [in |-> in, subframes |-> subframes, ok |-> TRUE]
  ELSE LET name == readToken(in)
           p == readPoseFromText(name.in)
       IN IF ~p.ok THEN [in |-> p.in, subframes |-> subframes, ok |-> FALSE]
          ELSE loadSubframes(p.in, MapPut(subframes, name.tok[1].word, p.pose), subframe_count, i + 1)

\* loadGeometryFromStream, the end of one object: the subframes are read and
\* set when the text has the new format; s is the result of loadShapes
loadObjectSubframes(s, object_id, uses_new_scene_format) ==
  IF ~s.ok THEN [sc |-> s.sc, in |-> s.in, ok |-> FALSE]
  ELSE IF ~uses_new_scene_format THEN s
  ELSE LET f == loadSubframes(readNumber(readToken(s.in)).in, EmptyMap,
                              readNumber(readToken(s.in)).val, 0)
       IN [sc |-> IF f.ok THEN setSubframesOfObject(s.sc, object_id, f.subframes) ELSE s.sc,
           in |-> f.in, ok |-> f.ok]

\* loadGeometryFromStream, one object after its id was read: p is the pose
\* read (the identity in the old format), placed by the offset
loadObject(sc, object_id, p, offset, uses_new_scene_format) ==
  IF uses_new_scene_format /\ ~p.ok THEN [sc |-> sc, in |-> p.in, ok |-> FALSE]
  ELSE loadObjectSubframes(
         loadShapes(setObjectPose(sc, object_id, [x |-> p.pose.x, q |-> Mul(offset, p.pose.q)]),
                    readNumber(readToken(p.in)).in, object_id,
                    readNumber(readToken(p.in)).val, 0),
         object_id, uses_new_scene_format)

RECURSIVE loadObjects(_, _, _, _)
\* loadGeometryFromStream, the loop over the markers: [sc, ret].  The id is
\* the trimmed rest of the line of the marker; the pose of the object is read
\* when the format has it and is the identity otherwise
loadObjects(sc, in, offset, uses_new_scene_format) ==
  LET m == readToken(in)
      g == getline(m.in, <<>>)
      o == loadObject(sc, IF g.line = <<>> THEN "" ELSE g.line[1].word,
                      IF uses_new_scene_format THEN readPoseFromText(g.in)
                      ELSE [in |-> g.in, ok |-> TRUE, pose |-> [x |-> 0, q |-> Identity]],
                      offset, uses_new_scene_format)
  IN IF ~good(m.in) THEN [sc |-> sc, ret |-> FALSE]
     ELSE IF m.tok = <<Word("*")>>
          THEN IF ~good(g.in) THEN [sc |-> sc, ret |-> FALSE]
               ELSE IF ~o.ok THEN [sc |-> o.sc, ret |-> FALSE]
               ELSE loadObjects(o.sc, o.in, offset, uses_new_scene_format)
     ELSE IF m.tok = <<Word(".")>> THEN [sc |-> sc, ret |-> TRUE]
     ELSE [sc |-> sc, ret |-> FALSE]

RECURSIVE findMarkerLine(_)
\* loadGeometryFromStream, the loop that reads lines up to the first line of
\* an object: [in, line]
findMarkerLine(r) ==
  IF good(r.in) /\ (r.line = <<>> \/ r.line[1] # Word("*"))
  THEN findMarkerLine(getline(r.in, r.line))
  ELSE r

\* std::istream::seekg(pos): eofbit is cleared; a stream that has failed is
\* not moved
seekg(in, pos) ==
  IF in.fail THEN [in EXCEPT !.eof = FALSE]
  ELSE [in EXCEPT !.eof = FALSE, !.l = pos[1], !.t = pos[2]]

\* loadGeometryFromStream, after the scene name: r is the stream and line
\* after the loop that looks for the first object, pos the place to go back to
loadAfterFormat(sc, r, pos, offset) ==
  loadObjects(sc, seekg(getline(r.in, r.line).in, pos), offset,
              Len(getline(r.in, r.line).line) > 1)

\* PlanningScene::loadGeometryFromStream(in, offset): [sc, ret]
loadGeometryFromStream(sc, in, offset) ==
  IF ~good(in) THEN [sc |-> sc, ret |-> FALSE]
  ELSE loadAfterFormat(sc, findMarkerLine(getline(getline(in, <<>>).in, <<>>)),
                       <<getline(in, <<>>).in.l, getline(in, <<>>).in.t>>, offset)

\* ------------------------------------------------------------------------
\* State and path validity.  A robot state is seen here by what the three
\* checks read of it: `q`, what the collision checks read, `feasible`, the
\* answer of the scene's state feasibility predicate for it, and `sat`, the
\* constraints it satisfies.  A Constraints message is the set of the
\* constraints it names.  The scene is seen by its predicate (set or not) and
\* by whether its matrix allows the contact of the robot with the world.  The
\* group and verbose arguments change none of the results and are left out.
\* ------------------------------------------------------------------------

\* PlanningScene::isStateColliding(const RobotState&, group, verbose) const: a
\* default CollisionRequest and checkCollision(req, res, state) const
isStateColliding(sc, state) ==
  checkCollision("state_const",
                 [pad_environment_collisions |-> TRUE, pad_self_collisions |-> FALSE,
                  contacts |-> FALSE, max_contacts |-> 1],
                 EmptyResult, state.q, sc.acm).res.collision

\* PlanningScene::isStateFeasible(const RobotState&, verbose) const
isStateFeasible(sc, state) ==
  IF sc.state_feasibility THEN state.feasible ELSE TRUE

\* KinematicConstraintSet::decide(state).satisfied
decide(ks, state) == ks \subseteq state.sat

\* PlanningScene::isStateConstrained(const RobotState&, const Constraints&, verbose) const
isStateConstrained(state, constr) ==
  IF constr = {} THEN TRUE ELSE decide(constr, state)

\* an isStateValid that makes the three checks before it looks at any result
isStateValidNoShortCircuit(sc, state, constr) ==
  [ret |-> ~isStateColliding(sc, state) /\ isStateFeasible(sc, state) /\ isStateConstrained(state, constr),
   evaluated |-> <<"isStateColliding", "isStateFeasible", "isStateConstrained">>]

\* PlanningScene::isStateValid(const RobotState&, const Constraints&, group,
\* verbose) const: [ret, evaluated], evaluated the checks that were called, in
\* the order of the calls
isStateValid(sc, state, constr) ==
  IF isStateColliding(sc, state)
  THEN [ret |-> FALSE, evaluated |-> <<"isStateColliding">>]
  ELSE IF ~isStateFeasible(sc, state)
       THEN [ret |-> FALSE, evaluated |-> <<"isStateColliding", "isStateFeasible">>]
       ELSE [ret |-> isStateConstrained(state, constr),
             evaluated |-> <<"isStateColliding", "isStateFeasible", "isStateConstrained">>]

\* isPathValid, `this_state_valid` of the way point st
thisStateValid(sc, st, path_constraints) ==
  /\ ~isStateColliding(sc, st)
  /\ isStateFeasible(sc, st)
  /\ ~(path_constraints # {} /\ ~decide(path_constraints, st))

\* isPathValid, the check of the goal for the last state: a [result,
\* invalid_index, visited, returned] record after the way point of index i
\* (from 0) was checked
checkGoal(acc, st, goal_constraints, i, n_wp) ==
  IF i + 1 = n_wp /\ goal_constraints # <<>>
     /\ ~(\E k \in 1..Len(goal_constraints) : isStateConstrained(st, goal_constraints[k]))
  THEN [acc EXCEPT !.invalid_index = IF Has(@) THEN Some(Append(Val(@), i)) ELSE @,
                   !.result = FALSE]
  ELSE acc

\* an isPathValid loop that returns at the first invalid way point also when
\* it was given a buffer
RECURSIVE wayPointsStopAtFirst(_, _, _, _, _, _)
wayPointsStopAtFirst(sc, trajectory, path_constraints, goal_constraints, acc, i) ==
  IF i >= Len(trajectory) THEN acc
  ELSE IF ~thisStateValid(sc, trajectory[i + 1], path_constraints)
       THEN [acc EXCEPT !.visited = Append(@, i), !.result = FALSE, !.returned = TRUE,
                        !.invalid_index = IF Has(@) THEN Some(Append(Val(@), i)) ELSE @]
       ELSE wayPointsStopAtFirst(sc, trajectory, path_constraints, goal_constraints,
                      checkGoal([acc EXCEPT !.visited = Append(@, i)],
                                trajectory[i + 1], goal_constraints, i, Len(trajectory)),
                      i + 1)

\* isPathValid, the loop over the way points from index i (from 0) on
RECURSIVE wayPoints(_, _, _, _, _, _)
wayPoints(sc, trajectory, path_constraints, goal_constraints, acc, i) ==
  IF i >= Len(trajectory) THEN acc
  ELSE IF ~thisStateValid(sc, trajectory[i + 1], path_constraints)
       THEN IF Has(acc.invalid_index)
            THEN wayPoints(sc, trajectory, path_constraints, goal_constraints,
                           checkGoal([acc EXCEPT !.visited = Append(@, i),
                                                 !.invalid_index = Some(Append(Val(@), i)),
                                                 !.result = FALSE],
                                     trajectory[i + 1], goal_constraints, i, Len(trajectory)),
                           i + 1)
            ELSE [acc EXCEPT !.visited = Append(@, i), !.result = FALSE, !.returned = TRUE]
       ELSE wayPoints(sc, trajectory, path_constraints, goal_constraints,
                      checkGoal([acc EXCEPT !.visited = Append(@, i)],
                                trajectory[i + 1], goal_constraints, i, Len(trajectory)),
                      i + 1)

\* PlanningScene::isPathValid(const RobotTrajectory&, path_constraints,
\* goal_constraints, group, verbose, invalid_index): invalid_index is None for
\* a null pointer, else the vector the caller passes, which is cleared first
isPathValid(sc, trajectory, path_constraints, goal_constraints, invalid_index) ==
  wayPoints(sc, trajectory, path_constraints, goal_constraints,
            [result |-> TRUE,
             invalid_index |-> IF Has(invalid_index) THEN Some(<<>>) ELSE None,
             visited |-> <<>>, returned |-> FALSE],
            0)

\* ------------------------------------------------------------------------
\* The calls.  `last` is the record of the call made last: the method, the
\* scene it was called on, the object id, operation and link of its message,
\* the number of shapes and of shape poses the message carries, whether the
\* World of the scene had an object of that id when the call was made, and
\* the value returned.
\* ------------------------------------------------------------------------

Call(op, n, id, operation, link, nshapes, nposes, existed, ret) ==
  [op |-> op, scene |-> n, id |-> id, operation |-> operation, link |-> link,
   nshapes |-> nshapes, nposes |-> nposes, existed |-> existed, ret |-> ret]

NoCall == Call("none", "S", "", "", "", 0, 0, FALSE, TRUE)

\* the variables of the collision queries and of the geometry streams are not
\* used by the calls on the scenes
cq0 ==
  [method |-> "none", overload |-> "none",
   current |-> QueryState("far", "far", FALSE, "far"),
   req |-> [pad_environment_collisions |-> TRUE, pad_self_collisions |-> FALSE,
            contacts |-> FALSE, max_contacts |-> 1],
   used |-> QueryState("far", "far", FALSE, "far"),
   acm |-> FALSE,
   res |-> [collision |-> FALSE, contact_count |-> 0, env_used |-> "none", self_used |-> "none"]]

gs0 == [phase |-> "idle"]

vq0 == [method |-> "none"]

GeoPose(x, q) == [x |-> x, q |-> q]

\* the objects of the Worlds that are saved
GeoObjects ==
  { Object(GeoPose(0, Identity), <<>>, <<>>, EmptyMap),
    Object(GeoPose(5000000, PoseA), <<"box_shape">>, <<GeoPose(0, Identity)>>, EmptyMap),
    Object(GeoPose(1234567, PoseB), <<"mesh_shape", "box_shape">>,
           <<GeoPose(5000000, PoseB), GeoPose(1234567, Identity)>>,
           [f \in {"sub", "tip"} |-> IF f = "sub" THEN GeoPose(1234567, PoseA) ELSE GeoPose(0, PoseB)]),
    Object(GeoPose(0, PoseA), <<"box_shape">>, <<GeoPose(5000000, PoseA)>>,
           [f \in {"tip"} |-> GeoPose(5000000, Identity)]) }

\* the Worlds that are saved: "box", "can" and the occupancy map are there or
\* not
GeoWorlds ==
  { w \in UNION {[ids -> GeoObjects] : ids \in SUBSET {"box", "can", OCTOMAP_NS}} :
      /\ "can" \in DOMAIN w => Len(w["can"].shapes) = 1
      /\ OCTOMAP_NS \in DOMAIN w => w[OCTOMAP_NS].subframe_poses = [f \in {"tip"} |-> GeoPose(5000000, Identity)] }

\* the scenes that are saved: a root scene on one of the Worlds, "box" colored
\* or not
GeoScenes ==
  {RootScene(w) : w \in GeoWorlds}
  \cup {setObjectColor(RootScene(w), "box", "red") : w \in {v \in GeoWorlds : "box" \in DOMAIN v}}

Init ==
  /\ \E w \in InitialWorlds : scenes = [n \in SceneNames |-> IF n = "S" THEN RootScene(w) ELSE NoScene]
  /\ last = NoCall
  /\ calls = 0
  /\ cq = cq0
  /\ gs = gs0
  /\ vq = vq0

\* the shapes a call may leave in one object or body stay within MaxShapes
WithinShapes(scs) ==
  \A n \in SceneNames :
    /\ \A id \in DOMAIN scs[n].world : Len(scs[n].world[id].shapes) <= MaxShapes
    /\ Has(scs[n].robot_state) =>
         \A id \in DOMAIN Val(scs[n].robot_state).attached :
           Len(Val(scs[n].robot_state).attached[id].shapes) <= MaxShapes

DoCollisionObjectMsg(n, limit) ==
  /\ calls < limit
  /\ scenes[n].exists
  /\ \E object \in CollisionObjectMsgs :
       LET r == processCollisionObjectMsg(scenes, n, object)
       IN /\ WithinShapes(r.scs)
          /\ scenes' = r.scs
          /\ last' = Call("processCollisionObjectMsg", n, object.id, object.operation, "",
                          NumShapes(object), NumShapePoses(object),
                          hasObject(scenes[n], object.id), r.ret)
  /\ calls' = calls + 1
  /\ UNCHANGED <<cq, gs, vq>>

DoAttachedCollisionObjectMsg(n, limit) ==
  /\ calls < limit
  /\ scenes[n].exists
  /\ \E object \in AttachedCollisionObjectMsgs :
       LET r == processAttachedCollisionObjectMsg(scenes, n, object)
       IN /\ WithinShapes(r.scs)
          /\ scenes' = r.scs
          /\ last' = Call("processAttachedCollisionObjectMsg", n, object.object.id,
                          object.object.operation, object.link_name, NumShapes(object.object),
                          NumShapePoses(object.object), hasObject(scenes[n], object.object.id),
                          r.ret)
  /\ calls' = calls + 1
  /\ UNCHANGED <<cq, gs, vq>>

DoSetObjectColor(n, limit) ==
  /\ calls < limit
  /\ scenes[n].exists
  /\ \E id \in {"box"}, color \in Colors :
       /\ scenes' = Upd(scenes, n, setObjectColor(scenes[n], id, color))
       /\ last' = Call("setObjectColor", n, id, color, "", 0, 0, hasObject(scenes[n], id), TRUE)
  /\ calls' = calls + 1
  /\ UNCHANGED <<cq, gs, vq>>

DoSetCurrentState(n, limit) ==
  /\ calls < limit
  /\ scenes[n].exists
  /\ \E state_msg \in RobotStateMsgs :
       /\ scenes' = setCurrentState(scenes, n, state_msg)
       /\ last' = Call("setCurrentState", n, "", state_msg.joints, "", 0, 0, FALSE, TRUE)
  /\ calls' = calls + 1
  /\ UNCHANGED <<cq, gs, vq>>

DoOctomapMsg(n, limit) ==
  /\ calls < limit
  /\ scenes[n].exists
  /\ \E map \in OctomapMsgs :
       /\ scenes' = processOctomapMsg(scenes, n, map)
       /\ last' = Call("processOctomapMsg", n, map.id, map.data, "", 0, 0, hasObject(scenes[n], OCTOMAP_NS), TRUE)
  /\ calls' = calls + 1
  /\ UNCHANGED <<cq, gs, vq>>

DoOctomapWithPoseMsg(n, limit) ==
  /\ calls < limit
  /\ scenes[n].exists
  /\ \E map \in OctomapMsgs :
       /\ scenes' = processOctomapWithPoseMsg(scenes, n, map)
       /\ last' = Call("processOctomapMsg", n, map.id, map.data, "", 0, 0, hasObject(scenes[n], OCTOMAP_NS), TRUE)
  /\ calls' = calls + 1
  /\ UNCHANGED <<cq, gs, vq>>

DoSetPlanningSceneDiffMsg(n, limit) ==
  /\ calls < limit
  /\ scenes[n].exists
  /\ \E scene_msg \in PlanningSceneMsgs :
       LET r == setPlanningSceneDiffMsg(scenes, n, scene_msg)
       IN /\ WithinShapes(r.scs)
          /\ scenes' = r.scs
          /\ last' = Call("setPlanningSceneDiffMsg", n, "", "", "", 0, 0, FALSE, r.ret)
  /\ calls' = calls + 1
  /\ UNCHANGED <<cq, gs, vq>>

\* the trees and poses processOctomapPtr is called with
OctomapPtrs == [octree : {"tree_p1", "tree_p2"}, t : {PoseA, PoseB}]

DoOctomapPtr(n, limit) ==
  /\ calls < limit
  /\ scenes[n].exists
  /\ \E a \in OctomapPtrs :
       /\ scenes' = processOctomapPtr(scenes, n, a.octree, a.t)
       /\ last' = Call("processOctomapPtr", n, a.octree, "", "", 0, 0, hasObject(scenes[n], OCTOMAP_NS), TRUE)
  /\ calls' = calls + 1
  /\ UNCHANGED <<cq, gs, vq>>

\* F = S.diff()
DoDiff ==
  /\ ~scenes["F"].exists
  /\ scenes' = diff(scenes)
  /\ last' = Call("diff", "S", "", "", "", 0, 0, FALSE, TRUE)
  /\ UNCHANGED <<calls, cq, gs, vq>>

\* F.pushDiffs(S)
DoPushDiffs(limit) ==
  /\ calls < limit
  /\ scenes["F"].exists
  /\ scenes' = pushDiffs(scenes, "F", "S")
  /\ last' = Call("pushDiffs", "F", "", "", "", 0, 0, FALSE, TRUE)
  /\ calls' = calls + 1
  /\ UNCHANGED <<cq, gs, vq>>

\* calls on a root scene
Next ==
  \/ DoCollisionObjectMsg("S", MaxCalls)
  \/ DoAttachedCollisionObjectMsg("S", MaxCalls)
  \/ DoSetObjectColor("S", MaxCalls)
  \/ DoSetCurrentState("S", MaxCalls)
  \/ DoOctomapMsg("S", MaxCalls)
  \/ DoOctomapWithPoseMsg("S", MaxCalls)

Spec == Init /\ [][Next]_vars

\* calls on a root scene S and on the scene F = S.diff()
NextDiff ==
  \/ DoDiff
  \/ DoPushDiffs(MaxDiffCalls)
  \/ \E n \in SceneNames :
       \/ DoCollisionObjectMsg(n, MaxDiffCalls)
       \/ DoAttachedCollisionObjectMsg(n, MaxDiffCalls)
       \/ DoSetObjectColor(n, MaxDiffCalls)
       \/ DoSetCurrentState(n, MaxDiffCalls)
       \/ DoSetPlanningSceneDiffMsg(n, MaxDiffCalls)

SpecDiff == Init /\ [][NextDiff]_vars

\* F = clone(S)
DoClone ==
  /\ ~scenes["F"].exists
  /\ scenes' = clone(scenes)
  /\ last' = Call("clone", "S", "", "", "", 0, 0, FALSE, TRUE)
  /\ UNCHANGED <<calls, cq, gs, vq>>

DoClearDiffs(n, limit) ==
  /\ calls < limit
  /\ scenes[n].exists
  /\ scenes' = clearDiffs(scenes, n)
  /\ last' = Call("clearDiffs", n, "", "", "", 0, 0, FALSE, TRUE)
  /\ calls' = calls + 1
  /\ UNCHANGED <<cq, gs, vq>>

DoDecoupleParent(n, limit) ==
  /\ calls < limit
  /\ scenes[n].exists
  /\ scenes' = decoupleParent(scenes, n)
  /\ last' = Call("decoupleParent", n, "", "", "", 0, 0, FALSE, TRUE)
  /\ calls' = calls + 1
  /\ UNCHANGED <<cq, gs, vq>>

DoSetObjectType(n, limit) ==
  /\ calls < limit
  /\ scenes[n].exists
  /\ \E id \in {"box"}, type \in {"type1", "type2"} :
       /\ scenes' = Upd(scenes, n, setObjectType(scenes[n], id, type))
       /\ last' = Call("setObjectType", n, id, type, "", 0, 0, hasObject(scenes[n], id), TRUE)
  /\ calls' = calls + 1
  /\ UNCHANGED <<cq, gs, vq>>

DoSetAllowedCollisionMatrix(n, limit) ==
  /\ calls < limit
  /\ scenes[n].exists
  /\ \E acm \in {{"L1"}, {"L1", "L2", "box"}} :
       /\ scenes' = setAllowedCollisionMatrix(scenes, n, acm)
       /\ last' = Call("setAllowedCollisionMatrix", n, "", "", "", 0, 0, FALSE, TRUE)
  /\ calls' = calls + 1
  /\ UNCHANGED <<cq, gs, vq>>

DoGetCurrentStateNonConst(n, limit) ==
  /\ calls < limit
  /\ scenes[n].exists
  /\ scenes' = getCurrentStateNonConst(scenes, n)
  /\ last' = Call("getCurrentStateNonConst", n, "", "", "", 0, 0, FALSE, TRUE)
  /\ calls' = calls + 1
  /\ UNCHANGED <<cq, gs, vq>>

DoGetAllowedCollisionMatrixNonConst(n, limit) ==
  /\ calls < limit
  /\ scenes[n].exists
  /\ scenes' = getAllowedCollisionMatrixNonConst(scenes, n)
  /\ last' = Call("getAllowedCollisionMatrixNonConst", n, "", "", "", 0, 0, FALSE, TRUE)
  /\ calls' = calls + 1
  /\ UNCHANGED <<cq, gs, vq>>

\* calls on a scene F made of the root scene S by diff() or clone(), and the
\* calls on S that change what F reads from it; the messages come first
NextFork ==
  \/ DoDiff
  \/ DoClone
  \/ DoPushDiffs(MaxForkCalls)
  \/ DoCollisionObjectMsg("F", MaxForkMessages)
  \/ DoAttachedCollisionObjectMsg("F", MaxForkMessages)
  \/ DoOctomapMsg("F", MaxForkMessages)
  \/ DoOctomapPtr("F", MaxForkMessages)
  \/ DoSetPlanningSceneDiffMsg("F", MaxForkMessages)
  \/ DoClearDiffs("F", MaxForkCalls)
  \/ DoDecoupleParent("F", MaxForkCalls)
  \/ DoGetCurrentStateNonConst("F", MaxForkCalls)
  \/ DoGetAllowedCollisionMatrixNonConst("F", MaxForkCalls)
  \/ \E n \in SceneNames :
       \/ DoSetObjectColor(n, MaxForkCalls)
       \/ DoSetObjectType(n, MaxForkCalls)
       \/ DoSetCurrentState(n, MaxForkCalls)
       \/ DoSetAllowedCollisionMatrix(n, MaxForkCalls)

SpecFork == Init /\ [][NextFork]_vars

\* the robot states a caller passes to the frame lookups: the current state of
\* the scene, that state with the joints moved, and that state without its
\* attached bodies
CallerStates(scs, n) ==
  LET rs == getCurrentState(scs, n)
  IN {rs, [rs EXCEPT !.joints = IF @ = "q0" THEN "q1" ELSE "q0"], [rs EXCEPT !.attached = EmptyMap]}

\* getFrameTransform(state, f), getFrameTransform(state, "/" + f) and the two
\* knowsFrameTransform calls of a caller, on the root scene
DoFrameLookup ==
  /\ \E state \in CallerStates(scenes, "S"), f \in FrameNames :
       vq' = [method |-> "getFrameTransform", state |-> state, frame_id |-> f,
              transform |-> getFrameTransformOf(scenes, "S", state, f),
              transform_slash |-> getFrameTransformOf(scenes, "S", state, "/" \o f),
              knows |-> knowsFrameTransformOf(scenes, "S", state, f),
              knows_slash |-> knowsFrameTransformOf(scenes, "S", state, "/" \o f)]
  /\ UNCHANGED <<scenes, last, calls, cq, gs>>

\* frame lookups of a caller on a root scene, between attach and detach
\* messages and changes of the current state
NextFrames ==
  \/ DoAttachedCollisionObjectMsg("S", MaxFrameCalls)
  \/ DoSetCurrentState("S", MaxFrameCalls)
  \/ DoFrameLookup

SpecFrames == Init /\ [][NextFrames]_vars

\* PlanningScene::setCurrentState(const RobotState&) with the state of a caller
DoSetCurrentStateBodies ==
  /\ \E state \in QueryStates : cq' = [cq EXCEPT !.current = state]
  /\ UNCHANGED <<scenes, last, calls, gs, vq>>

\* the state a call works on: the current state of the scene after
\* getCurrentStateNonConst (which updates it), the current state as it is, or
\* the state the caller passes
StateOfQuery(overload, state) ==
  IF overload = "current" THEN updateCollisionBodyTransforms(cq.current)
  ELSE IF overload = "current_const" THEN cq.current
  ELSE state

\* the matrix a call works with: the one the caller passes, or the one of the
\* scene, which allows no contact with the world
QueryAcm(overload, acm) == IF overload \in {"state_acm", "state_acm_const"} THEN acm ELSE FALSE

\* the variable cq after a call that gave r
AfterQuery(method, overload, req, acm, r) ==
  [method |-> method, overload |-> overload,
   current |-> IF overload = "current" THEN r.robot_state ELSE cq.current,
   req |-> req, used |-> r.robot_state, acm |-> QueryAcm(overload, acm), res |-> r.res]

DoCheckCollision ==
  /\ \E overload \in Overloads, req \in CollisionRequests, state \in QueryStates, acm \in BOOLEAN :
       cq' = AfterQuery("checkCollision", overload, req, acm,
                        checkCollision(overload, req, EmptyResult, StateOfQuery(overload, state),
                                       QueryAcm(overload, acm)))
  /\ UNCHANGED <<scenes, last, calls, gs, vq>>

DoCheckCollisionUnpadded ==
  /\ \E overload \in Overloads, req \in CollisionRequests, state \in QueryStates, acm \in BOOLEAN :
       cq' = AfterQuery("checkCollisionUnpadded", overload, req, acm,
                        checkCollisionUnpadded(overload, req, EmptyResult, StateOfQuery(overload, state),
                                               QueryAcm(overload, acm)))
  /\ UNCHANGED <<scenes, last, calls, gs, vq>>

\* checkSelfCollision does not read req.pad_environment_collisions, and the
\* self check is not seen through the matrix
DoCheckSelfCollision ==
  /\ \E overload \in Overloads, req \in {r \in CollisionRequests : r.pad_environment_collisions},
        state \in QueryStates, acm \in {FALSE} :
       cq' = AfterQuery("checkSelfCollision", overload, req, acm,
                        checkSelfCollision(overload, req, EmptyResult, StateOfQuery(overload, state),
                                           QueryAcm(overload, acm)))
  /\ UNCHANGED <<scenes, last, calls, gs, vq>>

\* collision queries on a root scene
NextCollision ==
  \/ DoSetCurrentStateBodies
  \/ DoCheckCollision
  \/ DoCheckCollisionUnpadded
  \/ DoCheckSelfCollision

\* the scene of the collision queries is a root scene with an empty World
InitCollision ==
  /\ scenes = [n \in SceneNames |-> IF n = "S" THEN RootScene(EmptyMap) ELSE NoScene]
  /\ last = NoCall
  /\ calls = 0
  /\ cq = cq0
  /\ gs = gs0
  /\ vq = vq0

SpecCollision == InitCollision /\ [][NextCollision]_vars

\* what isStateValid and isPathValid are called with: the scene (predicate set
\* or not, contact allowed by the matrix or not), robot states (valid and at
\* the goal, valid, touching the world, rejected by the predicate, within the
\* padding, off the path), trajectories of up to MaxWayPoints of them, path
\* constraints, lists of goal constraints, and the index buffer (none, empty,
\* or holding an index of an earlier call)
ValidityInputs ==
  LET WayPoint(env, feasible, sat) ==
        [q |-> QueryState(env, "far", FALSE, env), feasible |-> feasible, sat |-> sat]
      states == { WayPoint("far", TRUE, {"c1", "g1"}), WayPoint("far", TRUE, {"c1"}),
                  WayPoint("contact", TRUE, {"c1", "g1"}), WayPoint("far", FALSE, {"c1", "g2"}),
                  WayPoint("near", TRUE, {"c1", "g2"}), WayPoint("far", TRUE, {"g2"}) }
  IN [scenes |-> [state_feasibility : BOOLEAN, acm : BOOLEAN],
      states |-> states,
      trajectories |-> UNION {[1..k -> states] : k \in 0..MaxWayPoints},
      constraints |-> {{}, {"c1"}, {"c1", "g1"}},
      goal_constraints |-> {<<>>, <<{"g1"}>>, <<{"g1"}, {"g2"}>>, <<{}>>},
      invalid_index |-> {None, Some(<<>>), Some(<<7>>)}]

DoIsStateValid ==
  /\ vq.method = "none"
  /\ \E sc \in ValidityInputs.scenes, state \in ValidityInputs.states,
        constr \in ValidityInputs.constraints :
       vq' = [method |-> "isStateValid", sc |-> sc, state |-> state, constr |-> constr,
              r |-> isStateValid(sc, state, constr)]
  /\ UNCHANGED <<scenes, last, calls, cq, gs>>

DoIsPathValid ==
  /\ vq.method = "none"
  /\ \E sc \in ValidityInputs.scenes, trajectory \in ValidityInputs.trajectories,
        path_constraints \in {{}, {"c1"}}, goal_constraints \in ValidityInputs.goal_constraints,
        invalid_index \in ValidityInputs.invalid_index :
       vq' = [method |-> "isPathValid", sc |-> sc, trajectory |-> trajectory,
              path_constraints |-> path_constraints, goal_constraints |-> goal_constraints,
              buffered |-> Has(invalid_index),
              r |-> isPathValid(sc, trajectory, path_constraints, goal_constraints, invalid_index)]
  /\ UNCHANGED <<scenes, last, calls, cq, gs>>

\* validity queries on a root scene, one in a behaviour
NextValidity ==
  \/ DoIsStateValid
  \/ DoIsPathValid

SpecValidity == InitCollision /\ [][NextValidity]_vars

\* a scene is built on a World and named
InitGeometry ==
  /\ scenes = [n \in SceneNames |-> IF n = "S" THEN RootScene(EmptyMap) ELSE NoScene]
  /\ last = NoCall
  /\ calls = 0
  /\ cq = cq0
  /\ vq = vq0
  /\ \E sc \in GeoScenes, name \in {"scene", ""} :
       gs = [phase |-> "built", src |-> sc, name |-> name, text |-> <<>>,
             dst |-> RootScene(EmptyMap), ret |-> TRUE]

DoSaveGeometryToStream ==
  /\ gs.phase = "built"
  /\ gs' = [gs EXCEPT !.phase = "saved", !.text = saveGeometryToStream([scenes EXCEPT !["S"] = gs.src], "S", gs.name)]
  /\ UNCHANGED <<scenes, last, calls, cq, vq>>

\* a scene file written by hand or by another program: the text that was
\* saved, with the object `from` given the name `to`
SceneFile(text, from, to) ==
  [i \in DOMAIN text |->
     IF Len(text[i]) = 2 /\ text[i][1] = Word("*") /\ text[i][2] = Word(from)
     THEN <<Word("*"), Word(to)>>
     ELSE text[i]]

\* the streams a scene is loaded from: the text that was saved, and that text
\* with one of its objects given the reserved id
SceneFiles(text) == {text} \cup {SceneFile(text, from, OCTOMAP_NS) : from \in {"box", "can"}}

\* loadGeometryFromStream(in) on a scene with an empty World
DoLoadGeometryFromStream ==
  /\ gs.phase = "saved"
  /\ \E text \in SceneFiles(gs.text) :
       LET r == loadGeometryFromStream(RootScene(EmptyMap), Stream(text), Identity)
       IN gs' = [gs EXCEPT !.phase = IF text = gs.text THEN "loaded" ELSE "loaded_file",
                           !.dst = r.sc, !.ret = r.ret]
  /\ UNCHANGED <<scenes, last, calls, cq, vq>>

NextGeometry ==
  \/ DoSaveGeometryToStream
  \/ DoLoadGeometryFromStream

SpecGeometry == InitGeometry /\ [][NextGeometry]_vars

\* ------------------------------------------------------------------------
\* Properties of the calls on scenes
\* ------------------------------------------------------------------------

\* the step is a call of the method op
IsCall(op) == calls' = calls + 1 /\ last'.op = op

\* the ids attached to the robot of the scene n
attachedIds(scs, n) == DOMAIN getCurrentState(scs, n).attached

\* C1: no id is at the same time an object of the World of the scene and an
\* attached body of the current robot state of the scene.
C1_Disjoint == DOMAIN scenes["S"].world \cap attachedIds(scenes, "S") = {}

\* C2: a collision-object message or an attached-object message whose object
\* id is "<octomap>" returns false and leaves the scene as it was: its World,
\* attached bodies, ACM, colors, types and the fields it holds locally.
C2_ReservedId ==
  [][(/\ \/ IsCall("processCollisionObjectMsg")
         \/ IsCall("processAttachedCollisionObjectMsg")
      /\ last'.id = OCTOMAP_NS)
     => (~last'.ret /\ scenes' = scenes)]_vars

\* a detach message with the reserved id was sent to the fork F, whose robot
\* state is still the one of its parent
C2_Witness ==
  /\ last.op = "processAttachedCollisionObjectMsg"
  /\ last.id = OCTOMAP_NS
  /\ last.operation = "REMOVE"
  /\ last.scene = "F"
  /\ ~last.ret
  /\ scenes["F"].exists
  /\ ~Has(scenes["F"].robot_state)

\* C3, attaching: an ADD message without geometry for the world object "box"
\* and a known link
C3_Attach ==
  (/\ IsCall("processAttachedCollisionObjectMsg")
   /\ last'.id = "box" /\ last'.operation = "ADD" /\ last'.nshapes = 0
   /\ hasLinkModel(last'.link)
   /\ hasObject(scenes["S"], "box"))
  => LET obj == scenes["S"].world["box"]
         rs == getCurrentState(scenes', "S")
     IN /\ last'.ret
        /\ ~hasObject(scenes'["S"], "box")
        /\ hasAttachedBody(rs, "box")
        /\ rs.attached["box"].link = last'.link
        /\ getGlobalPose(rs, "box") = obj.pose
        /\ rs.attached["box"].shapes = obj.shapes
        /\ rs.attached["box"].shape_poses = obj.shape_poses
        /\ rs.attached["box"].subframe_poses = obj.subframe_poses

\* C3, detaching: a REMOVE message for the attached body "box", with its own
\* link or none, when the World has no object "box"
C3_Detach ==
  (/\ IsCall("processAttachedCollisionObjectMsg")
   /\ last'.id = "box" /\ last'.operation = "REMOVE"
   /\ hasAttachedBody(getCurrentState(scenes, "S"), "box")
   /\ last'.link \in {"", getCurrentState(scenes, "S").attached["box"].link}
   /\ ~hasObject(scenes["S"], "box"))
  => LET rs == getCurrentState(scenes, "S")
         ab == rs.attached["box"]
         original == getOriginalObjectColor(scenes["S"], "box")
     IN /\ last'.ret
        /\ ~hasAttachedBody(getCurrentState(scenes', "S"), "box")
        /\ hasObject(scenes'["S"], "box")
        /\ scenes'["S"].world["box"].pose = getGlobalPose(rs, "box")
        /\ scenes'["S"].world["box"].shapes = ab.shapes
        /\ scenes'["S"].world["box"].shape_poses = ab.shape_poses
        /\ scenes'["S"].world["box"].subframe_poses = ab.subframe_poses
        /\ Has(original) => getObjectColor(scenes', "S", "box") = Val(original)

\* C3, the color first set: the color recorded for "box" is the one of the
\* first setObjectColor call, and no call changes it afterwards
C3_FirstColor ==
  LET original == getOriginalObjectColor(scenes["S"], "box")
  IN /\ Has(original) => getOriginalObjectColor(scenes'["S"], "box") = original
     /\ (~Has(original) /\ IsCall("setObjectColor") /\ last'.id = "box")
          => getOriginalObjectColor(scenes'["S"], "box") = Some(last'.operation)

\* C3: attaching the world object "box" to a known link by an ADD message
\* without geometry takes it out of the World and makes it an attached body of
\* that link, with the same global pose, shapes and subframes; detaching it puts
\* it back into the World at its global pose with the same shapes and
\* subframes, removes the attached body, and sets its color to the color first
\* set for "box" when one was set.
C3_AttachDetachRoundTrip == [][C3_Attach /\ C3_Detach /\ C3_FirstColor]_vars

\* "box" was colored red and then blue, attached and detached: it is back in
\* the World as it was constructed, red again
C3_Witness ==
  /\ calls = 4
  /\ last.op = "processAttachedCollisionObjectMsg"
  /\ last.id = "box" /\ last.operation = "REMOVE" /\ last.ret
  /\ ~hasAttachedBody(getCurrentState(scenes, "S"), "box")
  /\ hasObject(scenes["S"], "box")
  /\ \E w \in InitialWorlds : "box" \in DOMAIN w /\ scenes["S"].world["box"] = w["box"]
  /\ getObjectColor(scenes, "S", "box") = "red"
  /\ getOriginalObjectColor(scenes["S"], "box") = Some("red")

\* C4: when F.pushDiffs(S) is called, every object that F's World holds and
\* that F's world diff records as added or changed is in S's World afterwards
\* with the pose, shapes, shape poses and subframes it has in F.
C4_ForkMerge ==
  [][IsCall("pushDiffs")
     => \A id \in DOMAIN Val(scenes["F"].world_diff) :
          (hasObject(scenes["F"], id) /\ Val(scenes["F"].world_diff)[id] # {"DESTROY"})
          => /\ hasObject(scenes'["S"], id)
             /\ scenes'["S"].world[id] = scenes["F"].world[id]]_vars

\* "box" was added to F only, and pushDiffs has brought it to S
C4_Witness ==
  /\ last.op = "pushDiffs"
  /\ scenes["F"].exists
  /\ hasObject(scenes["F"], "box")
  /\ "box" \in DOMAIN Val(scenes["F"].world_diff)
  /\ "CREATE" \in Val(scenes["F"].world_diff)["box"]
  /\ hasObject(scenes["S"], "box")
  /\ scenes["S"].world["box"] = scenes["F"].world["box"]
  /\ scenes["S"].world["box"].pose # Identity

\* C5: F.pushDiffs(S) called on the fork as S.diff() has just made it leaves
\* S as it was: its world objects, robot state with the attached bodies, ACM,
\* colors, types and link padding and scale.
C5_DiffIdempotent ==
  [][(IsCall("pushDiffs") /\ scenes["F"] = ForkedScene(scenes["S"]))
     => scenes'["S"] = scenes["S"]]_vars

\* pushDiffs was called on an untouched fork of a scene that has an object,
\* an attached body and a padding of its own
C5_Witness ==
  /\ last.op = "pushDiffs"
  /\ scenes["F"] = ForkedScene(scenes["S"])
  /\ scenes["S"].cenv.padding = "pad1"
  /\ DOMAIN scenes["S"].world # {}

\* the step is a MOVE message for an existing object that carries shape poses,
\* but not as many as the object has shapes
MoveCountMismatch ==
  /\ IsCall("processCollisionObjectMsg")
  /\ last'.operation = "MOVE"
  /\ hasObject(scenes["S"], last'.id)
  /\ last'.nposes # 0
  /\ last'.nposes # Len(scenes["S"].world[last'.id].shapes)

\* C6: a MOVE message for an existing object with a non-zero number of shape
\* poses that differs from the object's shape count returns false and leaves
\* every shape pose of the object as it was.
C6_MoveMismatchShapePoses ==
  [][MoveCountMismatch
     => /\ ~last'.ret
        /\ hasObject(scenes'["S"], last'.id)
        /\ scenes'["S"].world[last'.id].shape_poses = scenes["S"].world[last'.id].shape_poses
        /\ scenes'["S"].world[last'.id].shapes = scenes["S"].world[last'.id].shapes]_vars

\* a MOVE message with one shape pose was sent for an object of two shapes
C6_Witness ==
  /\ last.op = "processCollisionObjectMsg"
  /\ last.operation = "MOVE"
  /\ last.existed
  /\ last.nposes = 1
  /\ ~last.ret
  /\ hasObject(scenes["S"], last.id)
  /\ Len(scenes["S"].world[last.id].shapes) = 2

\* C7: when a MOVE message fails because its number of shape poses differs
\* from the object's shape count, the pose of the object is left unchanged.
C7_MoveMismatchObjectPose ==
  [][MoveCountMismatch
     => scenes'["S"].world[last'.id].pose = scenes["S"].world[last'.id].pose]_vars

objectOf(scs, n, id) == IF hasObject(scs[n], id) THEN Some(scs[n].world[id]) ELSE None

\* the attached body of the id on the current state of the scene n, when
\* there is one
bodyOf(scs, n, id) ==
  IF hasAttachedBody(getCurrentState(scs, n), id)
  THEN Some(getCurrentState(scs, n).attached[id])
  ELSE None

\* C11: whenever processCollisionObjectMsg or processAttachedCollisionObjectMsg
\* returns false, the World object and the attached body named by the id of
\* the message are as before the call: same presence, pose, shapes, shape
\* poses, subframes and link.
C11_FailureAtomicity ==
  [][(/\ \/ IsCall("processCollisionObjectMsg")
         \/ IsCall("processAttachedCollisionObjectMsg")
      /\ ~last'.ret)
     => /\ objectOf(scenes', "S", last'.id) = objectOf(scenes, "S", last'.id)
        /\ bodyOf(scenes', "S", last'.id) = bodyOf(scenes, "S", last'.id)]_vars

\* C12: a call made on the fork F of S, other than F.pushDiffs(S), leaves the
\* World, robot state, allowed collision matrix, transforms, colors and types
\* of S as they were (collision-object and attached-object messages,
\* setObjectColor, setObjectType, setCurrentState, setAllowedCollisionMatrix,
\* diff messages, octomap messages, clearDiffs, decoupleParent), and so do
\* diff() and clone().
C12_ForkIsolation ==
  [][(\/ last'.scene = "F" /\ last'.op # "pushDiffs"
      \/ last'.op \in {"diff", "clone"})
     => /\ scenes'["S"].world = scenes["S"].world
        /\ scenes'["S"].robot_state = scenes["S"].robot_state
        /\ scenes'["S"].acm = scenes["S"].acm
        /\ scenes'["S"].scene_transforms = scenes["S"].scene_transforms
        /\ scenes'["S"].object_colors = scenes["S"].object_colors
        /\ scenes'["S"].object_types = scenes["S"].object_types]_vars

\* the fork has attached the "box" it took from S, set its own matrix and
\* dropped its parent, and S still holds "box" in its World, nothing attached
\* and its first matrix
C12_Witness ==
  /\ last.op = "decoupleParent" /\ last.scene = "F"
  /\ ~scenes["F"].parent
  /\ hasAttachedBody(getCurrentState(scenes, "F"), "box")
  /\ ~hasObject(scenes["F"], "box")
  /\ getAllowedCollisionMatrix(scenes, "F") = {"L1"}
  /\ hasObject(scenes["S"], "box")
  /\ ~hasAttachedBody(getCurrentState(scenes, "S"), "box")
  /\ getAllowedCollisionMatrix(scenes, "S") = Links

\* the ids the scenes are read with
ReadIds == {"box", "can", OCTOMAP_NS}

\* what is read of the scene n: the World, the current state, the matrix, the
\* transforms, and the colors and types of the ids
Reads(scs, n) ==
  [world |-> scs[n].world,
   state |-> getCurrentState(scs, n),
   acm |-> getAllowedCollisionMatrix(scs, n),
   transforms |-> getTransforms(scs, n),
   colors |-> [id \in ReadIds |-> <<hasObjectColor(scs, n, id), getObjectColor(scs, n, id)>>],
   types |-> [id \in ReadIds |-> <<hasObjectType(scs, n, id), getObjectType(scs, n, id)>>]]

\* C13: after clearDiffs on the fork F of S, F has no transforms, robot state,
\* matrix, colors or types of its own, its change log is empty, and the World,
\* current state, matrix, colors and types read from F are those of S; on a
\* scene without parent clearDiffs changes nothing.
C13_Rollback ==
  [][last'.op = "clearDiffs"
     => IF scenes["F"].parent
        THEN /\ scenes'["F"].scene_transforms = None
             /\ scenes'["F"].robot_state = None
             /\ scenes'["F"].acm = None
             /\ scenes'["F"].object_colors = None
             /\ scenes'["F"].object_types = None
             /\ scenes'["F"].world_diff = Some(EmptyMap)
             /\ scenes'["F"].parent
             /\ Reads(scenes', "F") = Reads(scenes', "S")
             /\ scenes'["S"] = scenes["S"]
        ELSE scenes' = scenes]_vars

\* "can" was added in F, pushed to S, and F.clearDiffs() was called: F reads
\* "can" as S holds it
C13_Witness ==
  /\ last.op = "clearDiffs" /\ last.scene = "F"
  /\ scenes["F"].parent
  /\ hasObject(scenes["S"], "can")
  /\ hasObject(scenes["F"], "can")

\* C14: decoupleParent leaves every read of the scene as it was (World,
\* current state, matrix, transforms, and for every id hasObjectColor,
\* getObjectColor, hasObjectType, getObjectType, the scene's own entries
\* winning over the parent's); clone(S) reads as S does; afterwards the scene
\* has no parent and no change log, and a later call on the former parent does
\* not change what the scene reads.
C14_DecouplePreserves ==
  [][/\ last'.op = "decoupleParent"
        => /\ Reads(scenes', "F") = Reads(scenes, "F")
           /\ ~scenes'["F"].parent
           /\ scenes["F"].parent => scenes'["F"].world_diff = None
     /\ last'.op = "clone"
        => /\ Reads(scenes', "F") = Reads(scenes, "S")
           /\ ~scenes'["F"].parent
           /\ scenes'["F"].world_diff = None
     /\ (scenes["F"].exists /\ ~scenes["F"].parent /\ last'.scene = "S")
        => Reads(scenes', "F") = Reads(scenes, "F")]_vars

\* decoupleParent was called on a fork that had set its own color and type of
\* "box" while S holds another color of "box": the fork reads its own
C14_Witness ==
  /\ last.op = "decoupleParent" /\ last.scene = "F"
  /\ ~scenes["F"].parent
  /\ hasObjectColor(scenes, "S", "box")
  /\ getObjectColor(scenes, "F", "box") # getObjectColor(scenes, "S", "box")
  /\ getObjectColor(scenes, "F", "box") \in Colors

\* C18: as long as the fork F has no robot state (matrix) of its own, its
\* current state (matrix) is the present one of S, also after S changed it;
\* getCurrentStateNonConst and getAllowedCollisionMatrixNonConst give F a copy
\* of the value S has at that moment, setCurrentState and a successful attach
\* or detach leave F with a state of its own; from then on a call on S does
\* not change what F reads, and only clearDiffs takes the copy away.
C18_LazyForwarding ==
  [][scenes'["F"].parent
     => /\ ~Has(scenes'["F"].robot_state)
           => getCurrentState(scenes', "F") = Val(scenes'["S"].robot_state)
        /\ ~Has(scenes'["F"].acm)
           => getAllowedCollisionMatrix(scenes', "F") = Val(scenes'["S"].acm)
        /\ (last'.scene = "F" /\ last'.op = "getCurrentStateNonConst" /\ ~Has(scenes["F"].robot_state))
           => scenes'["F"].robot_state = scenes["S"].robot_state
        /\ (last'.scene = "F" /\ last'.op = "getAllowedCollisionMatrixNonConst" /\ ~Has(scenes["F"].acm))
           => scenes'["F"].acm = scenes["S"].acm
        /\ (/\ last'.scene = "F"
            /\ \/ last'.op = "setCurrentState"
               \/ last'.op = "processAttachedCollisionObjectMsg" /\ last'.ret)
           => Has(scenes'["F"].robot_state)
        /\ (last'.scene = "F" /\ last'.op = "setAllowedCollisionMatrix")
           => Has(scenes'["F"].acm)
        /\ (Has(scenes["F"].robot_state) /\ last'.op # "clearDiffs")
           => /\ Has(scenes'["F"].robot_state)
              /\ last'.scene = "S" => scenes'["F"].robot_state = scenes["F"].robot_state
        /\ (Has(scenes["F"].acm) /\ last'.op # "clearDiffs")
           => /\ Has(scenes'["F"].acm)
              /\ last'.scene = "S" => scenes'["F"].acm = scenes["F"].acm]_vars

\* S changed its matrix and then its state after F took a copy of the state
\* with getCurrentStateNonConst: F reads the matrix S has now and the state S
\* had then
C18_Witness ==
  /\ last.op = "setCurrentState" /\ last.scene = "S"
  /\ scenes["F"].parent
  /\ Has(scenes["F"].robot_state) /\ ~Has(scenes["F"].acm)
  /\ getCurrentState(scenes, "F").joints # getCurrentState(scenes, "S").joints
  /\ getAllowedCollisionMatrix(scenes, "F") = {"L1"}

\* the conjunction of the results of the mutations a PlanningScene diff
\* message carries: the attached-object messages of its robot state and its
\* collision-object messages, each applied in the order of setPlanningSceneDiffMsg
allMutationsSucceed(scs, n, scene_msg) ==
  LET s1 == setTransformsFromMsg(scs, n, scene_msg)
      attached_ok ==
        \/ scene_msg.robot_state.joints = "" /\ scene_msg.robot_state.attached_collision_objects = <<>>
        \/ setCurrentStateResults(s1, n, scene_msg.robot_state).ret
  IN attached_ok /\ setPlanningSceneDiffMsg(scs, n, scene_msg).ret

\* C15: the value setPlanningSceneDiffMsg returns is the conjunction of the
\* results of all the mutations the message carries, the attached-object
\* messages of its robot_state included.
C15_BatchResult ==
  [][last'.op = "setPlanningSceneDiffMsg"
     => \A scene_msg \in PlanningSceneMsgs :
          (/\ setPlanningSceneDiffMsg(scenes, last'.scene, scene_msg).scs = scenes'
           /\ setPlanningSceneDiffMsg(scenes, last'.scene, scene_msg).ret = last'.ret)
          => last'.ret = allMutationsSucceed(scenes, last'.scene, scene_msg)]_vars

\* C19: a collision-object APPEND message that carries no shapes, on a frame
\* the scene knows and with an id other than the occupancy map's, returns true
\* and leaves the shapes of the World as they were.  (The APPEND messages
\* without shapes are all in the model frame.)
C19_AppendNoShapes ==
  [][(/\ IsCall("processCollisionObjectMsg")
      /\ last'.operation = "APPEND"
      /\ last'.nshapes = 0
      /\ last'.id # OCTOMAP_NS
      /\ knowsFrameTransform(scenes, "S", ModelFrame))
     => /\ last'.ret
        /\ DOMAIN scenes'["S"].world = DOMAIN scenes["S"].world
        /\ \A id \in DOMAIN scenes["S"].world :
             scenes'["S"].world[id].shapes = scenes["S"].world[id].shapes]_vars

\* C20: after a processCollisionObjectMsg that returned true for an id the
\* World already held, the object holds the shapes of the message (primitives,
\* meshes, planes) and no others when the operation is ADD, and its previous
\* shapes followed by those of the message when it is APPEND; in both cases
\* it has as many shape poses as shapes.  (Every shape of the messages is one
\* constructShapeFromMsg converts.)
C20_AddReplacesAppendConcatenates ==
  [][(/\ IsCall("processCollisionObjectMsg")
      /\ last'.operation \in {"ADD", "APPEND"}
      /\ last'.existed
      /\ last'.ret)
     => \A object \in CollisionObjectMsgs :
          (/\ object.id = last'.id
           /\ object.operation = last'.operation
           /\ NumShapes(object) = last'.nshapes
           /\ NumShapePoses(object) = last'.nposes
           /\ processCollisionObjectMsg(scenes, "S", object).ret
           /\ processCollisionObjectMsg(scenes, "S", object).scs = scenes')
          => /\ hasObject(scenes'["S"], object.id)
             /\ scenes'["S"].world[object.id].shapes =
                  (IF object.operation = "ADD" THEN <<>> ELSE scenes["S"].world[object.id].shapes)
                  \o object.primitives \o object.meshes \o object.planes
             /\ Len(scenes'["S"].world[object.id].shape_poses)
                  = Len(scenes'["S"].world[object.id].shapes)]_vars

\* an ADD of one primitive has replaced the "box" of two shapes
C20_Witness ==
  /\ last.op = "processCollisionObjectMsg" /\ last.operation = "ADD" /\ last.id = "box"
  /\ last.existed /\ last.ret /\ calls = 1
  /\ hasObject(scenes["S"], "box")
  /\ scenes["S"].world["box"].shapes = <<"prim_a">>
  /\ Len(scenes["S"].world["box"].shape_poses) = 1

\* C21: a processCollisionObjectMsg REMOVE of an id (not empty, not the
\* octomap id) returns true exactly when the World of the scene held the id,
\* and after a REMOVE that returned true the scene has no object, no color
\* (hasObjectColor), no type (hasObjectType) and no matrix entry for the id,
\* on a root scene and on a scene whose parent holds a color or type of the id.
C21_RemoveClearsAll ==
  [][(/\ IsCall("processCollisionObjectMsg")
      /\ last'.operation = "REMOVE"
      /\ last'.id \notin {"", OCTOMAP_NS})
     => /\ last'.ret = last'.existed
        /\ last'.ret =>
             /\ ~hasObject(scenes'[last'.scene], last'.id)
             /\ ~hasObjectColor(scenes', last'.scene, last'.id)
             /\ ~hasObjectType(scenes', last'.scene, last'.id)
             /\ last'.id \notin getAllowedCollisionMatrix(scenes', last'.scene)]_vars

C23_AppendToAttached ==
  [][(/\ IsCall("processAttachedCollisionObjectMsg")
      /\ last'.operation = "APPEND"
      /\ last'.ret
      /\ hasAttachedBody(getCurrentState(scenes, "S"), last'.id))
     => \A object \in AttachedCollisionObjectMsgs :
          (/\ object.object.id = last'.id
           /\ object.object.operation = "APPEND"
           /\ object.link_name = last'.link
           /\ NumShapes(object.object) = last'.nshapes
           /\ NumShapePoses(object.object) = last'.nposes
           /\ processAttachedCollisionObjectMsg(scenes, "S", object).ret
           /\ processAttachedCollisionObjectMsg(scenes, "S", object).scs = scenes')
          => LET o == object.object
                 ab == getCurrentState(scenes, "S").attached[o.id]
                 nb == getCurrentState(scenes', "S").attached[o.id]
                 k == NumShapes(o)
             IN /\ hasAttachedBody(getCurrentState(scenes', "S"), o.id)
                /\ nb.shapes = (o.primitives \o o.meshes \o o.planes) \o ab.shapes
                /\ Len(nb.shape_poses) = Len(nb.shapes)
                /\ SubSeq(nb.shape_poses, k + 1, Len(nb.shape_poses)) = ab.shape_poses
                /\ DOMAIN nb.subframe_poses = DOMAIN subframesOfMsg(o) \cup DOMAIN ab.subframe_poses
                /\ \A f \in DOMAIN ab.subframe_poses \ DOMAIN subframesOfMsg(o) :
                     nb.subframe_poses[f] = ab.subframe_poses[f]
                /\ nb.touch_links = ab.touch_links \cup object.touch_links
                /\ isEmpty(o.pose) => nb.pose = ab.pose
                /\ object.detach_posture = "" => nb.detach_posture = ab.detach_posture]_vars

\* a body attached with the touch link L2 and the posture "open" got two more
\* shapes by an APPEND without touch links and posture: it has three shapes
\* and still the touch link and the posture
C23_Witness ==
  /\ last.op = "processAttachedCollisionObjectMsg" /\ last.operation = "APPEND"
  /\ last.id = "box" /\ last.nshapes = 2 /\ last.ret
  /\ hasAttachedBody(getCurrentState(scenes, "S"), "box")
  /\ getCurrentState(scenes, "S").attached["box"].shapes = <<"prim_b", "mesh_a", "prim_a">>
  /\ getCurrentState(scenes, "S").attached["box"].touch_links = {"L2"}
  /\ getCurrentState(scenes, "S").attached["box"].detach_posture = "open"

\* C24: a processAttachedCollisionObjectMsg REMOVE with an empty id and a link
\* name that is not empty detaches the bodies attached to that link and no
\* others: the bodies of the other links stay attached as they were.  (So all
\* the bodies are detached only when the message names neither id nor link.)
C24_DetachSelection ==
  [][(/\ IsCall("processAttachedCollisionObjectMsg")
      /\ last'.operation = "REMOVE"
      /\ last'.id = ""
      /\ last'.link # "")
     => LET before == getCurrentState(scenes, last'.scene).attached
            after == getCurrentState(scenes', last'.scene).attached
        IN /\ DOMAIN after = {id \in DOMAIN before : before[id].link # last'.link}
           /\ \A id \in DOMAIN after : after[id] = before[id]]_vars

\* the body id of the scene n is one the REMOVE message of the call selects:
\* the body of the id of the message (on the link of the message when it names
\* one), or, for a message without id, a body of the link of the message, any
\* body when the message names no link of the model
Selected(scs, n, call, id) ==
  LET rs == getCurrentState(scs, n)
  IN /\ hasAttachedBody(rs, id)
     /\ \/ call.id = id /\ (call.link = "" \/ call.link = rs.attached[id].link)
        \/ call.id = "" /\ (~hasLinkModel(call.link) \/ call.link = rs.attached[id].link)

Destroyed(scs) ==
  IF Has(scs["F"].world_diff)
  THEN {id \in DOMAIN Val(scs["F"].world_diff) : Val(scs["F"].world_diff)[id] = {"DESTROY"}}
  ELSE {}

\* C27: after F.pushDiffs(S), for every id the change log of F records as
\* destroyed, the World of S has no object of the id, and the matrix of S has
\* no entry of the id when the id is not an attached body of the current state
\* of S as the push left it; when it is one, the entry is as the push of the
\* matrix left it (the entry of F's matrix, or S's own when F has none).
C27_PushDestroy ==
  [][(IsCall("pushDiffs") /\ scenes["F"].parent)
     => \A id \in Destroyed(scenes) :
          /\ ~hasObject(scenes'["S"], id)
          /\ IF hasAttachedBody(getCurrentState(scenes', "S"), id)
             THEN (id \in getAllowedCollisionMatrix(scenes', "S"))
                    = (id \in getAllowedCollisionMatrix(scenes, "F"))
             ELSE id \notin getAllowedCollisionMatrix(scenes', "S")]_vars

\* "box", an object of S with an entry in the matrix, was attached in F and F
\* was pushed: S has the body, no object "box", and still the entry
C27_Witness ==
  /\ last.op = "pushDiffs"
  /\ "box" \in Destroyed(scenes)
  /\ hasAttachedBody(getCurrentState(scenes, "S"), "box")
  /\ ~hasObject(scenes["S"], "box")
  /\ "box" \in getAllowedCollisionMatrix(scenes, "S")

\* C28: when F has a robot state of its own, after F.pushDiffs(S) every body
\* attached in the robot state of F that has a type in F has that type in S,
\* and every such body that has a color in F has that color in S; also a body
\* that was an object of the World of S and was attached in F, whose id the
\* change log of F records as destroyed.
C28_PushAttachedColors ==
  [][(IsCall("pushDiffs") /\ scenes["F"].parent /\ Has(scenes["F"].robot_state))
     => \A id \in attachedIds(scenes, "F") :
          /\ hasObjectType(scenes, "F", id)
               => /\ hasObjectType(scenes', "S", id)
                  /\ getObjectType(scenes', "S", id) = getObjectType(scenes, "F", id)
          /\ hasObjectColor(scenes, "F", id)
               => /\ hasObjectColor(scenes', "S", id)
                  /\ getObjectColor(scenes', "S", id) = getObjectColor(scenes, "F", id)]_vars

\* C29: after F.pushDiffs(S), for every id the change log of F records with
\* another entry than destroyed, the object of the id in S has the pose,
\* shapes, shape poses and subframes of the object F holds (what S held under
\* the id is replaced); every object of S whose id is not in the change log of
\* F is as before, and no object of such an id is added.  pushDiffs called on
\* a scene without parent changes nothing.
C29_PushWorldReplay ==
  [][IsCall("pushDiffs")
     => IF scenes["F"].parent
        THEN LET log == Val(scenes["F"].world_diff)
             IN /\ \A id \in DOMAIN log \ Destroyed(scenes) :
                     /\ hasObject(scenes'["S"], id)
                     /\ scenes'["S"].world[id] = scenes["F"].world[id]
                /\ \A id \in (DOMAIN scenes["S"].world \cup DOMAIN scenes'["S"].world) \ DOMAIN log :
                     /\ hasObject(scenes["S"], id) /\ hasObject(scenes'["S"], id)
                     /\ scenes'["S"].world[id] = scenes["S"].world[id]
        ELSE scenes' = scenes]_vars

\* F appended a shape to the "box" it had from S and was pushed: the "box" of
\* S has the three shapes of F's, not its own two followed by them
C29_Witness ==
  /\ last.op = "pushDiffs"
  /\ scenes["F"].parent
  /\ "box" \in DOMAIN Val(scenes["F"].world_diff) \ Destroyed(scenes)
  /\ hasObject(scenes["F"], "box")
  /\ scenes["F"].world["box"].shapes = <<"prim_a", "mesh_a", "prim_a">>
  /\ hasObject(scenes["S"], "box")
  /\ scenes["S"].world["box"] = scenes["F"].world["box"]

\* the object of the occupancy map of the scene, when the World has one, has
\* exactly one shape
OctomapHasOneShape(sc) ==
  hasObject(sc, OCTOMAP_NS) => Len(sc.world[OCTOMAP_NS].shapes) = 1

\* C32: in every state reached by collision-object and attached-object
\* messages, processOctomapMsg, processOctomapPtr, scene messages, pushDiffs
\* and loadGeometryFromStream, the World object of the reserved id, when there
\* is one, holds exactly one shape.
C32_OctomapOneShape ==
  /\ \A n \in SceneNames : scenes[n].exists => OctomapHasOneShape(scenes[n])
  /\ gs.phase \in {"loaded", "loaded_file"} => OctomapHasOneShape(gs.dst)

\* the diff-log entry of the occupancy map in a scene, {} when there is none
OctomapEntry(sc) ==
  IF Has(sc.world_diff) /\ OCTOMAP_NS \in DOMAIN Val(sc.world_diff)
  THEN Val(sc.world_diff)[OCTOMAP_NS]
  ELSE {}

\* the occupancy map of the scene holds the tree's shape, and nothing else, at pose t
OctomapWraps(sc, octree, t) ==
  /\ hasObject(sc, OCTOMAP_NS)
  /\ sc.world[OCTOMAP_NS].shapes = <<OcTreeShape(octree)>>
  /\ sc.world[OCTOMAP_NS].shape_poses = <<t>>

\* C33: after processOctomapPtr(octree, t) the World holds the reserved-id
\* object with the single shape that wraps the tree, at pose t.  When the
\* stored tree and pose equal the arguments the World is left alone and, in a
\* fork, the diff-log entry of the reserved id is set to DESTROY|CREATE|ADD_SHAPE;
\* when only the pose differs the shape is moved in place (MOVE_SHAPE is or-ed
\* into the entry); when the tree differs the object is removed and added again.
C33_OctomapPtr ==
  [][IsCall("processOctomapPtr") =>
       \A a \in OctomapPtrs :
         (a.octree = last'.id /\ scenes' = processOctomapPtr(scenes, last'.scene, a.octree, a.t)) =>
           LET sc == scenes[last'.scene]
               after == scenes'[last'.scene]
               same_tree == /\ hasObject(sc, OCTOMAP_NS)
                            /\ sc.world[OCTOMAP_NS].shapes = <<OcTreeShape(a.octree)>>
           IN /\ OctomapWraps(after, a.octree, a.t)
              /\ \A id \in DOMAIN sc.world \ {OCTOMAP_NS} :
                   hasObject(after, id) /\ after.world[id] = sc.world[id]
              /\ (same_tree /\ sc.world[OCTOMAP_NS].shape_poses = <<a.t>>) =>
                   /\ after.world = sc.world
                   /\ Has(sc.world_diff) => OctomapEntry(after) = {"DESTROY", "CREATE", "ADD_SHAPE"}
              /\ (same_tree /\ sc.world[OCTOMAP_NS].shape_poses # <<a.t>>) =>
                   /\ after.world[OCTOMAP_NS] = [sc.world[OCTOMAP_NS] EXCEPT !.shape_poses = <<a.t>>]
                   /\ Has(sc.world_diff) => OctomapEntry(after) = OctomapEntry(sc) \cup {"MOVE_SHAPE"}
              /\ ~same_tree =>
                   /\ after.world[OCTOMAP_NS] = Object(Identity, <<OcTreeShape(a.octree)>>, <<a.t>>, EmptyMap)
                   /\ (Has(sc.world_diff) /\ hasObject(sc, OCTOMAP_NS)) =>
                        OctomapEntry(after) = {"DESTROY", "CREATE", "ADD_SHAPE"}
                   /\ (Has(sc.world_diff) /\ ~hasObject(sc, OCTOMAP_NS)) =>
                        OctomapEntry(after) = OctomapEntry(sc) \cup {"CREATE", "ADD_SHAPE"}]_vars

\* a fork moved the shape of its occupancy map in place: the same tree was
\* given again at another pose after the entry had been set by a first call
C33_Witness ==
  /\ last.op = "processOctomapPtr"
  /\ last.scene = "F"
  /\ last.existed
  /\ Has(scenes["F"].world_diff)
  /\ OctomapEntry(scenes["F"]) = {"CREATE", "ADD_SHAPE", "MOVE_SHAPE"}
  /\ scenes["F"].world[OCTOMAP_NS].shape_poses = <<PoseB>>

\* C34: in every state of a scene the padded and the unpadded collision
\* environment of its collision detector hold the same link padding and link
\* scale.
C34_PaddingConsistency ==
  \A n \in SceneNames :
    scenes[n].exists =>
      /\ scenes[n].cenv.padding = scenes[n].cenv_unpadded.padding
      /\ scenes[n].cenv.scale = scenes[n].cenv_unpadded.scale

\* the ids a color can be recorded for
ColoredIds == {"box", "can"}

\* C35: the original color of an id is the color of the first setObjectColor
\* call for it on the scene: once recorded it is changed by no later call
\* (setObjectColor, the removeObjectColor of a collision-object REMOVE, a
\* re-ADD, attach, detach), and a detach that puts the body back into the World
\* sets the id's color to it, whatever color was set in between.
C35_OriginalColor ==
  [][\A id \in ColoredIds :
       LET original == getOriginalObjectColor(scenes["S"], id)
       IN /\ Has(original) => getOriginalObjectColor(scenes'["S"], id) = original
          /\ (~Has(original) /\ Has(getOriginalObjectColor(scenes'["S"], id)))
               => /\ IsCall("setObjectColor")
                  /\ last'.id = id
                  /\ getOriginalObjectColor(scenes'["S"], id) = Some(last'.operation)
          /\ (/\ IsCall("processAttachedCollisionObjectMsg")
              /\ last'.operation = "REMOVE"
              /\ hasAttachedBody(getCurrentState(scenes, "S"), id)
              /\ ~hasAttachedBody(getCurrentState(scenes', "S"), id)
              /\ ~hasObject(scenes["S"], id)
              /\ Has(original))
               => /\ hasObject(scenes'["S"], id)
                  /\ hasObjectColor(scenes', "S", id)
                  /\ getObjectColor(scenes', "S", id) = Val(original)]_vars

\* "box" was colored and then removed by a collision-object message: its
\* color is gone and the color first set is still recorded
C35_Witness ==
  /\ last.op = "processCollisionObjectMsg"
  /\ last.id = "box" /\ last.operation = "REMOVE" /\ last.ret
  /\ ~hasObject(scenes["S"], "box")
  /\ ~hasObjectColor(scenes, "S", "box")
  /\ Has(getOriginalObjectColor(scenes["S"], "box"))

\* every id the diff log of the scene records otherwise than as DESTROY names
\* an object of the scene's World
DiffLogConsistent(sc) ==
  Has(sc.world_diff) =>
    \A id \in DOMAIN Val(sc.world_diff) :
      Val(sc.world_diff)[id] # {"DESTROY"} => hasObject(sc, id)

C37_TransformsFirstWrite ==
  [][\A n \in SceneNames :
       (/\ IsCall("setPlanningSceneDiffMsg")
        /\ last'.scene = n
        /\ scenes[n].parent
        /\ ~Has(scenes[n].scene_transforms)
        /\ Has(scenes'[n].scene_transforms))
       => \A frame_id \in DOMAIN getTransforms(scenes, n) :
            /\ frame_id \in DOMAIN Val(scenes'[n].scene_transforms)
            /\ knowsFrameTransform(scenes', n, frame_id)]_vars

\* C38: after clearDiffs on a fork nothing the fork recorded before the call is
\* left to influence later operations: the fork is in the state of a scene
\* just made of its parent by diff(), so that a color set afterwards is the
\* first color of its id and is the one a later detach restores.
C38_RollbackNoHiddenState ==
  [][\A n \in SceneNames :
       (IsCall("clearDiffs") /\ last'.scene = n /\ scenes[n].parent)
       => /\ scenes'[n] = ForkedScene(scenes[Parent(n)])
          /\ \A id \in ColoredIds, color \in Colors :
               getOriginalObjectColor(setObjectColor(scenes'[n], id, color), id) = Some(color)]_vars

\* C39: for every robot state the caller passes and every frame name f, the
\* lookups with "/" + f give what the lookups with f give: the same transform
\* and the same answer of knowsFrameTransform.
C39_LeadingSlash ==
  vq.method = "getFrameTransform" =>
    /\ vq.transform_slash = vq.transform
    /\ vq.knows_slash = vq.knows

\* ------------------------------------------------------------------------
\* Properties of the collision queries
\* ------------------------------------------------------------------------

\* C8: every overload of checkCollisionUnpadded checks the robot against the
\* unpadded collision environment, whatever req.pad_environment_collisions is;
\* so for a state whose collision body transforms are up to date and that
\* collides with the world only under padding, it reports no collision.
C8_UnpaddedDispatch ==
  cq.method = "checkCollisionUnpadded"
  => /\ cq.res.env_used = "unpadded"
     /\ (~cq.used.dirty /\ cq.used.env = "near" /\ cq.used.self = "far") => ~cq.res.collision

\* what the check against the world gives for the request, the state and the
\* matrix of the last query, on the result the caller constructed
EnvCheck ==
  checkRobotCollision(cq.req.pad_environment_collisions, cq.req, EmptyResult, cq.used, cq.acm)

\* the check against the world has found a collision, and the request asks
\* for no contacts or has as many as it asks for
SelfCheckSkipped ==
  EnvCheck.collision /\ (~cq.req.contacts \/ EnvCheck.contact_count >= cq.req.max_contacts)

C31_LazyRefresh ==
  (/\ cq.method \in {"checkCollision", "checkCollisionUnpadded", "checkSelfCollision"}
   /\ cq.overload \in {"state", "state_acm"})
  => /\ ~cq.used.dirty
     /\ cq.used.body_env = cq.used.env

\* ------------------------------------------------------------------------
\* Properties of the geometry text
\* ------------------------------------------------------------------------

\* two poses agree to the digits a text keeps
SamePose(a, b) == formatDouble(a.x) = formatDouble(b.x) /\ a.q = b.q

\* the objects a text is about: all but the occupancy map
RegularIds(sc) == DOMAIN sc.world \ {OCTOMAP_NS}

\* C10: for every World, the text written by saveGeometryToStream is accepted
\* by loadGeometryFromStream on a scene with an empty World, which returns true
\* and then holds the same non-reserved object ids, each with the same pose,
\* number of shapes and subframes.
C10_PersistenceRoundTrip ==
  gs.phase = "loaded"
  => /\ gs.ret
     /\ RegularIds(gs.dst) = RegularIds(gs.src)
     /\ \A id \in RegularIds(gs.src) :
          /\ SamePose(gs.dst.world[id].pose, gs.src.world[id].pose)
          /\ Len(gs.dst.world[id].shapes) = Len(gs.src.world[id].shapes)
          /\ DOMAIN gs.dst.world[id].subframe_poses = DOMAIN gs.src.world[id].subframe_poses
          /\ \A f \in DOMAIN gs.src.world[id].subframe_poses :
               SamePose(gs.dst.world[id].subframe_poses[f], gs.src.world[id].subframe_poses[f])

\* ------------------------------------------------------------------------
\* Properties of the validity queries
\* ------------------------------------------------------------------------

\* the robot state touches the world, or is within the padding of it, and the
\* matrix of the scene does not allow it (the states do not touch themselves)
Colliding(sc, st) == ~sc.acm /\ st.q.env \in {"contact", "near"}

\* the scene has no predicate, or its predicate accepts the state
Feasible(sc, st) == ~sc.state_feasibility \/ st.feasible

\* the constraints are none, or the state satisfies each
Satisfies(st, constr) == constr \subseteq st.sat

\* C16: isStateValid(state, constraints, group) returns true exactly when the
\* state is not colliding, the feasibility predicate accepts it (none set
\* counts as accept) and the constraints are satisfied (none counts as
\* satisfied); the checks are called in the order collision, feasibility,
\* constraints, and none is called after one that failed.
C16_StateValid ==
  vq.method = "isStateValid"
  => /\ vq.r.ret = (/\ ~Colliding(vq.sc, vq.state)
                    /\ Feasible(vq.sc, vq.state)
                    /\ Satisfies(vq.state, vq.constr))
     /\ vq.r.evaluated =
          IF Colliding(vq.sc, vq.state) THEN <<"isStateColliding">>
          ELSE IF ~Feasible(vq.sc, vq.state) THEN <<"isStateColliding", "isStateFeasible">>
          ELSE <<"isStateColliding", "isStateFeasible", "isStateConstrained">>

\* isStateValid was called with a state the predicate rejects and that does
\* not satisfy the constraints: it returned false after two checks
C16_Witness ==
  /\ vq.method = "isStateValid"
  /\ ~Colliding(vq.sc, vq.state)
  /\ ~Feasible(vq.sc, vq.state)
  /\ ~Satisfies(vq.state, vq.constr)
  /\ ~vq.r.ret
  /\ Len(vq.r.evaluated) = 2

\* the indices (from 0) of the way points that are colliding, infeasible or
\* off the path constraints
InvalidWayPoints(q) ==
  {i \in 0..(Len(q.trajectory) - 1) :
     \/ Colliding(q.sc, q.trajectory[i + 1])
     \/ ~Feasible(q.sc, q.trajectory[i + 1])
     \/ ~Satisfies(q.trajectory[i + 1], q.path_constraints)}

\* goal constraints are given and the last way point satisfies none of them
GoalMissed(q) ==
  /\ Len(q.trajectory) > 0
  /\ q.goal_constraints # <<>>
  /\ \A k \in 1..Len(q.goal_constraints) :
       ~Satisfies(q.trajectory[Len(q.trajectory)], q.goal_constraints[k])

\* the indices a call with a buffer reports
ExpectedIndices(q) ==
  InvalidWayPoints(q) \cup (IF GoalMissed(q) THEN {Len(q.trajectory) - 1} ELSE {})

\* C17: isPathValid with an index buffer visits every way point, leaves in
\* the buffer the index of every way point that is colliding, infeasible or
\* off the path constraints, and the last index when goal constraints are
\* given and the last way point satisfies none, and returns false exactly
\* when the buffer is not empty; without a buffer it stops at the first
\* invalid way point and returns what the call with a buffer returns.
C17_PathValid ==
  vq.method = "isPathValid"
  => /\ vq.r.result = (ExpectedIndices(vq) = {})
     /\ IF vq.buffered
        THEN /\ vq.r.visited = [i \in 1..Len(vq.trajectory) |-> i - 1]
             /\ {Val(vq.r.invalid_index)[k] : k \in 1..Len(Val(vq.r.invalid_index))}
                  = ExpectedIndices(vq)
             /\ vq.r.result = (Val(vq.r.invalid_index) = <<>>)
        ELSE /\ vq.r.invalid_index = None
             /\ \A i \in InvalidWayPoints(vq) :
                  (\A j \in InvalidWayPoints(vq) : i <= j)
                  => vq.r.visited = [k \in 1..(i + 1) |-> k - 1]
             /\ InvalidWayPoints(vq) = {}
                  => vq.r.visited = [i \in 1..Len(vq.trajectory) |-> i - 1]

\* isPathValid was called with a buffer that held an old index, on three way
\* points of which the first is colliding and the last is valid but misses
\* the goal: the buffer holds the indices 0 and 2
C17_Witness ==
  /\ vq.method = "isPathValid" /\ vq.buffered
  /\ Len(vq.trajectory) = 3
  /\ InvalidWayPoints(vq) = {0}
  /\ GoalMissed(vq)
  /\ vq.r.invalid_index = Some(<<0, 2>>)
  /\ ~vq.r.result

\* C40: on return of isPathValid the invalid_index buffer of the caller holds
\* way point indices in strictly increasing order, each at most once, and
\* nothing of what it held before the call.
C40_IndexBuffer ==
  (vq.method = "isPathValid" /\ vq.buffered)
  => LET invalid_index == Val(vq.r.invalid_index)
     IN /\ \A k \in 1..Len(invalid_index) : invalid_index[k] \in 0..(Len(vq.trajectory) - 1)
        /\ \A j, k \in 1..Len(invalid_index) : j < k => invalid_index[j] < invalid_index[k]

====
